---- MODULE Spec2Model ----
(***************************************************************************)
(* Orchestration engine of the Instagram automation backend: the account   *)
(* lifecycle written by the HTTP controllers (startAccount, stopAccount,   *)
(* updateAccount, deleteAccount), the BullMQ queue 'bot-worker', the job   *)
(* handler of botWorker and the session driver runPlaywrightBot with its   *)
(* collect loop (collectReels) and outreach step (processReelOutreach),    *)
(* the session files of sessionManager and the virtual displays of         *)
(* displayManager.                                                         *)
(* Every await that reads or writes shared state (the account row, the     *)
(* reel and outreach tables, the queue) is a separate step, so that the    *)
(* interleavings of requests and workers are the ones the code allows.     *)
(***************************************************************************)
EXTENDS Integers, Sequences, FiniteSets, Bags, TLC

(***************************************************************************)
(* Bounds of the model.                                                    *)
(***************************************************************************)
NumAccounts == 1        \* account ids 1..NumAccounts
MaxConcurrentBots == 2  \* config.MAX_CONCURRENT_BOTS (env, default 10)
MaxStarts == 2          \* start requests accepted in one behaviour (job ids)
NumItems == 1           \* distinct reels the feed can show
maxReels == 1           \* collectReels: const maxReels = 50, reduced
NumCallers == 2         \* concurrent calls of initializeDisplayForAccount

(***************************************************************************)
(* Program constants.                                                      *)
(***************************************************************************)
attempts == 3           \* botQueue defaultJobOptions.attempts
MaxFailures == 3        \* collectReels: consecutiveFailures >= 3
MIN_LIKES == 100000     \* REEL_FILTERS.MIN_LIKES

Accounts == 1..NumAccounts
Workers == 1..MaxConcurrentBots
JobIds == 1..MaxStarts
Items == 1..NumItems

ACCOUNT_STATUS == {"idle", "running", "paused", "error", "stopped"}

NoAccount == [exists |-> FALSE, status |-> "none", lastActive |-> "none"]
NoLog == [level |-> "none", message |-> "none"]
NoJob == [id |-> 0, accountId |-> 0, attemptsMade |-> 0]
NoRes == [success |-> FALSE, sent |-> FALSE, deliver |-> "none",
          submitted |-> FALSE, via |-> "none", ensured |-> FALSE]

VARIABLES
  account,        \* prisma.account rows: id -> [exists, status, lastActive]
  logs,           \* prisma.log: the newest row of each account (NoLog: no row)
  session,        \* sessions/<id>/auth.json: a blob of SessionBlobs
  displayUsage,   \* displayManager: Map accountId -> {display, vncPort}
  xvfb,           \* Xvfb processes started: a bag of display numbers
  vnc,            \* x11vnc processes started: a bag of ports
  call,           \* calls of initializeDisplayForAccount in progress
  reelRows,       \* prisma.reel rows: <<accountId, reelUrl>> -> number of rows
  outreachRows,   \* prisma.outreach rows, a bag of records
  inbox,          \* Instagram: the <<accountId, reel>> whose author got the message
  botQueue,       \* jobs waiting or delayed in the queue
  req,            \* start requests in flight: job id -> [pc, accountId, wrote]
  nextReq,        \* next request / job id
  wk,             \* worker slots of botWorker
  proxies,        \* proxyManager: const proxies (config.PROXY_LIST)
  proxyIndex,     \* proxyManager: let proxyIndex
  proxyOut,       \* proxyManager: the last call and the value it returned
  ENCRYPTION_KEY, \* encryption: the key of the process
  vault,          \* encryption: the last call, its argument and its outcome
  parse,          \* parseLikesCount: a text and, once parsed, the result
  shown,          \* collectReels: what each run saw of the reel of its cycle
  scroll,         \* attemptScrollToNextReel: the locals of a call and its position
  feed,           \* the Reels page of the browser: location, like text, DOM
  accountPassword, \* prisma.account.password: "null" or the encrypted blob
  loop,           \* collectReels: the counters of the loop of each run
  response,       \* accountController: the body of the last response sent
  driver          \* runPlaywrightBot: browser, context, page and outcome of each run

vars == <<account, logs, session, displayUsage, xvfb, vnc, call, reelRows,
          outreachRows, inbox, botQueue, req, nextReq, wk,
          proxies, proxyIndex, proxyOut, ENCRYPTION_KEY, vault, parse,
          shown, scroll, feed,
          accountPassword, loop, driver, response>>

\* The state of the engine, and the state of the utility modules.
engineVars == <<account, logs, session, displayUsage, xvfb, vnc, call,
                reelRows, outreachRows, inbox, botQueue, req, nextReq, wk>>
proxyVars == <<proxies, proxyIndex, proxyOut>>
vaultVars == <<ENCRYPTION_KEY, vault>>
scrollVars == <<scroll, feed>>
utilVars == <<proxyVars, vaultVars, parse, shown, scrollVars,
             accountPassword, loop, driver, response>>
outsideProxy == <<engineVars, vaultVars, parse, shown, scrollVars,
             accountPassword, loop, driver, response>>
outsideVault == <<engineVars, proxyVars, parse, shown, scrollVars,
             accountPassword, loop, driver, response>>
outsideParse == <<engineVars, proxyVars, vaultVars, shown, scrollVars,
             accountPassword, loop, driver, response>>
outsideScroll == <<engineVars, proxyVars, vaultVars, parse, shown,
                  accountPassword, loop, driver, response>>

dbVars == <<logs, reelRows, outreachRows>>
displayVars == <<displayUsage, xvfb, vnc, call>>

Callers == 1..NumCallers

\* The account ids of the calls examined one step at a time: 1 and 101 share
\* a slot of the pool, 100 is the first id past it.
DisplayIds == {1, 100, 101}

\* A call: its position, its argument and its pair; after the return (pc
\* "idle") the pair is the value returned, and `reused` tells that the call
\* returned at line 131 (both processes found running).
IdleCall == [pc |-> "idle", accountId |-> 0, display |-> 0, vncPort |-> 0,
             reused |-> FALSE]

\* The content of a session file: no file ("none"), unparseable JSON
\* ("corrupt"), or cookies that Instagram accepts ("valid") or no longer
\* accepts ("expired": Instagram ended the session while no run was on).
SessionBlobs == {"none", "corrupt", "valid", "expired"}

IdleWorker ==
  [pc |-> "idle", job |-> NoJob, readStatus |-> "none", readFresh |-> TRUE,
   ranDriver |-> FALSE, browser |-> FALSE, cookies |-> "none",
   established |-> "none", savedFinal |-> FALSE, reelCount |-> 0,
   consecutiveFailures |-> 0, seen |-> {}, item |-> 0, res |-> NoRes,
   exit |-> "none", error |-> "none", thrown |-> "none"]

IdleReq == [pc |-> "none", accountId |-> 0, wrote |-> FALSE]

EngineInit ==
  /\ account = [a \in Accounts |->
                  [exists |-> TRUE, status |-> "idle", lastActive |-> "none"]]
  /\ logs = [a \in Accounts |-> NoLog]
  /\ session \in [Accounts -> SessionBlobs]
  /\ displayUsage = {}
  /\ xvfb = EmptyBag
  /\ vnc = EmptyBag
  /\ call = [c \in Callers |-> IdleCall]
  /\ reelRows = [k \in Accounts \X Items |-> 0]
  /\ outreachRows = EmptyBag
  /\ inbox = {}
  /\ botQueue = {}
  /\ req = [j \in JobIds |-> IdleReq]
  /\ nextReq = 1
  /\ wk = [w \in Workers |-> IdleWorker]

\* No call of a utility module made yet; PROXY_LIST is not set.
NoCall == [fn |-> "none", arg |-> 0, value |-> "none"]

ProxyIdle ==
  /\ proxies = << >>
  /\ proxyIndex = 0
  /\ proxyOut = NoCall

\* A key of 32 bytes, no call made.
VaultIdle ==
  /\ ENCRYPTION_KEY = [bytes |-> 32, k |-> 0]
  /\ vault = [op |-> "none", arg |-> << >>, blob |-> << >>,
              out |-> [threw |-> FALSE, value |-> << >>]]

\* No text parsed.
NoNumber == [nan |-> FALSE, n |-> 0]

ParseIdle == parse = [text |-> << >>, done |-> FALSE, result |-> NoNumber]

\* No reel looked at.
NoReel == [item |-> 0, likesText |-> <<"null">>, ad |-> FALSE,
           live |-> FALSE, extracted |-> FALSE, complete |-> FALSE]

ShownIdle == shown = [w \in Workers |-> NoReel]

\* No call of attemptScrollToNextReel; the page shows the reel "r1".
NoScroll == [pc |-> "idle", beforeReelId |-> "unknown",
             beforeLikes |-> "null", urlChanged |-> FALSE,
             domUpdated |-> FALSE, afterReelId |-> "unknown", polls |-> 0,
             domPolls |-> 0, ret |-> "none", pressed |-> FALSE,
             signals |-> 0, differed |-> FALSE]

ScrollIdle ==
  /\ scroll = NoScroll
  /\ feed = [url |-> "r1", likesText |-> "null", video |-> FALSE,
             username |-> FALSE, reelId |-> "null"]

\* Every account was created with a password.
PasswordStored == accountPassword = [a \in Accounts |-> "stored"]

\* No run is in collectReels.
NoLoop == [pc |-> "idle", reelCount |-> 0, consecutiveFailures |-> 0,
           seen |-> FALSE]

LoopIdle == loop = [w \in Workers |-> NoLoop]

\* No response sent yet.
NoResponse == [op |-> "none", status |-> 0, fields |-> {}, account |-> {},
               password |-> "absent"]

ApiIdle == response = NoResponse

\* No run of runPlaywrightBot began: let browser, context, page.
NoDriver == [pc |-> "idle", browser |-> "undefined", context |-> "undefined",
             page |-> "undefined", error |-> "none", outcome |-> "none"]

DriverIdle == driver = [w \in Workers |-> NoDriver]

UtilInit ==
  /\ ProxyIdle /\ VaultIdle /\ ParseIdle /\ ShownIdle /\ ScrollIdle
  /\ PasswordStored /\ LoopIdle /\ ApiIdle /\ DriverIdle

Init == EngineInit /\ UtilInit

(***************************************************************************)
(* Persistence layer (prisma) and log sink.                                *)
(***************************************************************************)
LogEntry(level, message) == [level |-> level, message |-> message]

\* saveLogToDB: prisma.log.create inside try/catch; a failing create (taken to
\* be the case when the row of the account is gone) is swallowed and nothing
\* is written.  The log is append-only and never read by the engine: the
\* model keeps its newest row.
saveLogToDB(lg, acc, a, level, message) ==
  IF acc[a].exists
    THEN [lg EXCEPT ![a] = LogEntry(level, message)]
    ELSE lg

\* prisma.outreach.create of processReelOutreach: sentAt is set iff sent.
OutreachRecord(reelId, targetUser, sent) ==
  [reelId |-> reelId, targetUser |-> targetUser, sent |-> sent,
   sentAt |-> IF sent THEN "now" ELSE "null"]

OutreachFor(rows, reelId, targetUser) ==
  {r \in BagToSet(rows) : r.reelId = reelId /\ r.targetUser = targetUser}

OutreachCount(rows, reelId, targetUser) ==
  LET S == OutreachFor(rows, reelId, targetUser)
      RECURSIVE Sum(_)
      Sum(T) == IF T = {} THEN 0
                ELSE LET r == CHOOSE x \in T : TRUE
                     IN CopiesIn(r, rows) + Sum(T \ {r})
  IN Sum(S)

\* The uniqueness constraints of the store: a create that would add a second
\* reel row for (account, url), or a second outreach row for (reel, user),
\* is rejected (the create throws).
ReelUnique(rows, k) == rows[k] = 0

OutreachUnique(rows, reelId, targetUser) ==
  OutreachFor(rows, reelId, targetUser) = {}

\* The author of a reel and the reel's url are both named by the item.
Author(i) == i

(***************************************************************************)
(* displayManager.                                                         *)
(***************************************************************************)
MAX_DISPLAYS == 100
BASE_DISPLAY == 99
BASE_VNC_PORT == 5900

getDisplayForAccountNoWrap(a) ==
  [display |-> BASE_DISPLAY + a, vncPort |-> BASE_VNC_PORT + a]

getDisplayForAccount(a) ==
  [display |-> BASE_DISPLAY + (a % MAX_DISPLAYS),
   vncPort |-> BASE_VNC_PORT + (a % MAX_DISPLAYS)]

isDisplayRunningNever(display) == FALSE

\* ps / netstat find a process of the display or port.
isDisplayRunning(display) == BagIn(display, xvfb)

isVncRunning(port) == BagIn(port, vnc)

\* exec of the Xvfb / x11vnc command: one more process.
startXvfb(display) == xvfb (+) SetToBag({display})

startVncServer(port) == vnc (+) SetToBag({port})

\* displayUsage.set(accountId, { display, vncPort }).
DisplaySet(a, display, vncPort) ==
  {u \in displayUsage : u.accountId # a}
    \cup {[accountId |-> a, display |-> display, vncPort |-> vncPort]}

\* initializeDisplayForAccount run from its first line to its return with no
\* other call in between (the calls made by startAccount and by the run):
\* Xvfb and x11vnc are started for the slot of the account when they are
\* not running, then the account is recorded in displayUsage.
initializeDisplayForAccount(a) ==
  LET d == getDisplayForAccount(a) IN
    /\ xvfb' = IF isDisplayRunning(d.display)
                 THEN xvfb ELSE startXvfb(d.display)
    /\ vnc' = IF isVncRunning(d.vncPort)
                THEN vnc ELSE startVncServer(d.vncPort)
    /\ displayUsage' = DisplaySet(a, d.display, d.vncPort)
    /\ call' = call

(***************************************************************************)
(* initializeDisplayForAccount one await at a time, for calls that run     *)
(* concurrently: each check (ps, netstat) and each start is a step.        *)
(***************************************************************************)
otherVars == <<account, logs, session, reelRows, outreachRows, inbox,
              botQueue, req, nextReq, wk, utilVars>>

\* Lines 120-124: the pair of the account, then displayUsage.has.
InitBegin(c, a) ==
  /\ call[c].pc = "idle"
  /\ LET d == getDisplayForAccount(a) IN
       call' = [call EXCEPT ![c] =
         [pc |-> IF \E u \in displayUsage : u.accountId = a
                   THEN "verify" ELSE "checkXvfb",
          accountId |-> a, display |-> d.display, vncPort |-> d.vncPort,
          reused |-> FALSE]]
  /\ UNCHANGED <<displayUsage, xvfb, vnc, otherVars>>

\* Lines 125-133: both processes still run: return the pair.
InitVerify(c) ==
  /\ call[c].pc = "verify"
  /\ call' = [call EXCEPT ![c] =
       IF isDisplayRunning(@.display) /\ isVncRunning(@.vncPort)
         THEN [@ EXCEPT !.pc = "idle", !.reused = TRUE]
         ELSE [@ EXCEPT !.pc = "checkXvfb"]]
  /\ UNCHANGED <<displayUsage, xvfb, vnc, otherVars>>

\* Line 136: await isDisplayRunning(display).
InitCheckXvfb(c) ==
  /\ call[c].pc = "checkXvfb"
  /\ call' = [call EXCEPT ![c].pc =
       IF isDisplayRunning(call[c].display) THEN "checkVnc" ELSE "startXvfb"]
  /\ UNCHANGED <<displayUsage, xvfb, vnc, otherVars>>

\* Line 137: startXvfb(display).
InitStartXvfb(c) ==
  /\ call[c].pc = "startXvfb"
  /\ xvfb' = startXvfb(call[c].display)
  /\ call' = [call EXCEPT ![c].pc = "checkVnc"]
  /\ UNCHANGED <<displayUsage, vnc, otherVars>>

\* Lines 142 and 148-150: await isVncRunning(vncPort); when it runs, the
\* account is recorded and the pair returned.
InitCheckVnc(c) ==
  /\ call[c].pc = "checkVnc"
  /\ IF isVncRunning(call[c].vncPort)
       THEN /\ displayUsage' = DisplaySet(call[c].accountId, call[c].display,
                                          call[c].vncPort)
            /\ call' = [call EXCEPT ![c].pc = "idle"]
       ELSE /\ call' = [call EXCEPT ![c].pc = "startVnc"]
            /\ UNCHANGED displayUsage
  /\ UNCHANGED <<xvfb, vnc, otherVars>>

\* Lines 143-150: startVncServer, displayUsage.set, return.
InitStartVnc(c) ==
  /\ call[c].pc = "startVnc"
  /\ vnc' = startVncServer(call[c].vncPort)
  /\ displayUsage' = DisplaySet(call[c].accountId, call[c].display,
                                call[c].vncPort)
  /\ call' = [call EXCEPT ![c].pc = "idle"]
  /\ UNCHANGED <<xvfb, otherVars>>

DisplayClear(a) == {}

\* displayUsage.delete(accountId).
DisplayDelete(a) == {u \in displayUsage : u.accountId # a}

\* releaseDisplay: the entry of the account is deleted, no process is killed.
releaseDisplay(a) ==
  /\ \E u \in displayUsage : u.accountId = a
  /\ displayUsage' = DisplayDelete(a)
  /\ UNCHANGED <<xvfb, vnc, call, otherVars>>

\* The operating system: an Xvfb or an x11vnc process ends (it crashes or
\* is killed from outside the program).
XvfbExit(display) ==
  /\ BagIn(display, xvfb)
  /\ xvfb' = xvfb (-) SetToBag({display})
  /\ UNCHANGED <<displayUsage, vnc, call, otherVars>>

VncExit(port) ==
  /\ BagIn(port, vnc)
  /\ vnc' = vnc (-) SetToBag({port})
  /\ UNCHANGED <<displayUsage, xvfb, call, otherVars>>

Slots == {getDisplayForAccount(a) : a \in DisplayIds}

DisplayNext ==
  \/ \E c \in Callers, a \in DisplayIds : InitBegin(c, a)
  \/ \E c \in Callers : InitVerify(c)
  \/ \E c \in Callers : InitCheckXvfb(c)
  \/ \E c \in Callers : InitStartXvfb(c)
  \/ \E c \in Callers : InitCheckVnc(c)
  \/ \E c \in Callers : InitStartVnc(c)
  \/ \E a \in DisplayIds : releaseDisplay(a)
  \/ \E d \in Slots : XvfbExit(d.display)
  \/ \E d \in Slots : VncExit(d.vncPort)

\* The display manager on its own: no session file is involved.
DisplayInit == Init /\ \A a \in Accounts : session[a] = "none"

DisplaySpec == DisplayInit /\ [][DisplayNext]_vars

\* The calls one after another: one caller.
DisplaySeqNext ==
  \/ \E a \in DisplayIds : InitBegin(1, a)
  \/ InitVerify(1)
  \/ InitCheckXvfb(1)
  \/ InitStartXvfb(1)
  \/ InitCheckVnc(1)
  \/ InitStartVnc(1)
  \/ \E a \in DisplayIds : releaseDisplay(a)
  \/ \E d \in Slots : XvfbExit(d.display)
  \/ \E d \in Slots : VncExit(d.vncPort)

DisplaySeqSpec == DisplayInit /\ [][DisplaySeqNext]_vars

(***************************************************************************)
(* accountController.startAccount.  The request reads the account, answers *)
(* 404 or 400 without any write when it is missing or already 'running',   *)
(* and otherwise performs the steps of StartSteps in order, each an await. *)
(***************************************************************************)
StartStepsSwapped == <<"addJob", "update">>

StartSteps == <<"update", "addJob">>

StartAccepts(a) == account[a].exists /\ account[a].status # "running"

StartAfter(k) == IF k < Len(StartSteps) THEN StartSteps[k + 1] ELSE "none"

StepIndex(pc) == CHOOSE k \in 1..Len(StartSteps) : StartSteps[k] = pc

\* findUnique and the two early returns; a rejected request changes nothing.
StartFind(a) ==
  /\ nextReq <= MaxStarts
  /\ StartAccepts(a)
  /\ req' = [req EXCEPT ![nextReq] =
               [pc |-> StartSteps[1], accountId |-> a, wrote |-> FALSE]]
  /\ nextReq' = nextReq + 1
  /\ UNCHANGED <<account, dbVars, session, inbox, displayVars, utilVars, botQueue, wk>>

\* prisma.account.update status 'running'; P2025 when the row is gone, and
\* the request ends in next(error) without the remaining steps.
StartUpdate(j) ==
  /\ req[j].pc = "update"
  /\ LET a == req[j].accountId IN
       IF account[a].exists
         THEN /\ account' = [account EXCEPT ![a].status = "running",
                                            ![a].lastActive = "now"]
              /\ req' = [req EXCEPT ![j].pc = StartAfter(StepIndex("update")),
                                    ![j].wrote = TRUE]
         ELSE /\ req' = [req EXCEPT ![j].pc = "none"]
              /\ UNCHANGED account
  /\ UNCHANGED <<dbVars, session, inbox, displayVars, utilVars, botQueue, nextReq, wk>>

\* initializeDisplayForAccount (its failure is logged and ignored), addJob.
StartAddJob(j) ==
  /\ req[j].pc = "addJob"
  /\ initializeDisplayForAccount(req[j].accountId)
  /\ botQueue' = botQueue \cup
       {[id |-> j, accountId |-> req[j].accountId, attemptsMade |-> 0]}
  /\ req' = [req EXCEPT ![j].pc = StartAfter(StepIndex("addJob"))]
  /\ UNCHANGED <<account, dbVars, session, inbox, nextReq, wk, utilVars>>

(***************************************************************************)
(* accountController.stopAccount, updateAccount (status field) and         *)
(* deleteAccount.  Each is one findUnique/update/delete on the account;    *)
(* a request for a missing account answers 404 and changes nothing.        *)
(***************************************************************************)
StopAccount(a) ==
  /\ account[a].exists
  /\ account' = [account EXCEPT ![a].status = "stopped"]
  /\ UNCHANGED <<dbVars, session, inbox, displayVars, utilVars, botQueue, req, nextReq, wk>>

\* The status an operator sets by hand through updateAccount.
ManualStatus == {"paused"}

UpdateAccount(a, s) ==
  /\ account[a].exists
  /\ account' = [account EXCEPT ![a].status = s]
  /\ UNCHANGED <<dbVars, session, inbox, displayVars, utilVars, botQueue, req, nextReq, wk>>

\* prisma.account.delete; the rows that belong to the account go with it.
DeleteAccount(a) ==
  /\ account[a].exists
  /\ account' = [account EXCEPT ![a] = NoAccount]
  /\ logs' = [logs EXCEPT ![a] = NoLog]
  /\ reelRows' = [k \in Accounts \X Items |->
                    IF k[1] = a THEN 0 ELSE reelRows[k]]
  /\ outreachRows' =
       LET keep == {r \in BagToSet(outreachRows) : r.reelId[1] # a}
       IN [r \in keep |-> outreachRows[r]]
  /\ UNCHANGED <<session, inbox, displayVars, utilVars, botQueue, req, nextReq, wk>>

DispatchBusy(w) ==
  /\ \E job \in botQueue :
       /\ botQueue' = botQueue \ {job}
       /\ wk' = [wk EXCEPT ![w] = [IdleWorker EXCEPT !.pc = "findAccount",
                                                     !.job = job]]
  /\ UNCHANGED <<account, dbVars, session, inbox, displayVars, utilVars, req, nextReq>>

(***************************************************************************)
(* botWorker: the queue hands a waiting or delayed job to a free slot of   *)
(* the worker (the slots are anonymous: the free slot of lowest index      *)
(* takes the job).                                                         *)
(***************************************************************************)
Dispatch(w) ==
  /\ wk[w].pc = "idle"
  /\ \A v \in Workers : v < w => wk[v].pc # "idle"
  /\ \E job \in botQueue :
       /\ botQueue' = botQueue \ {job}
       /\ wk' = [wk EXCEPT ![w] = [IdleWorker EXCEPT !.pc = "findAccount",
                                                     !.job = job]]
  /\ UNCHANGED <<account, dbVars, session, inbox, displayVars, utilVars, req, nextReq>>

Acct(w) == wk[w].job.accountId

HandlerRunsUnlessStopped(status) == status # "stopped"

\* The status values for which the handler goes on to run the bot.
HandlerRuns(status) == status = "running"

\* Job handler, lines 18-31: findUnique, 'not found' throws, a status other
\* than 'running' returns { status: 'stopped' } at once.
FindAccount(w) ==
  /\ wk[w].pc = "findAccount"
  /\ LET a == Acct(w)
         fresh == req[wk[w].job.id].wrote
     IN wk' = [wk EXCEPT ![w] =
          IF ~account[a].exists
            THEN [@ EXCEPT !.pc = "catch", !.error = "AccountNotFound"]
          ELSE IF ~HandlerRuns(account[a].status)
            THEN [@ EXCEPT !.pc = "return",
                           !.readStatus = account[a].status,
                           !.readFresh = fresh]
          ELSE [@ EXCEPT !.pc = "botStart",
                         !.readStatus = account[a].status,
                         !.readFresh = fresh]]
  /\ UNCHANGED <<account, dbVars, session, inbox, displayVars, utilVars, botQueue, req,
                 nextReq>>

(***************************************************************************)
(* runPlaywrightBot.                                                       *)
(***************************************************************************)
\* An exception leaves the frames of the run: their locals are gone.
Raise(w, e) ==
  [wk EXCEPT ![w].pc = "botCatch", ![w].error = e, ![w].reelCount = 0,
             ![w].cookies = "none", ![w].established = "none",
             ![w].consecutiveFailures = 0, ![w].seen = {}, ![w].item = 0,
             ![w].res = NoRes]

\* Lines 1455-1483: 'Bot started', display, chromium.launch, newContext.
BotStart(w, launched) ==
  /\ wk[w].pc = "botStart"
  /\ logs' = saveLogToDB(logs, account, Acct(w), "info", "Bot started")
  /\ initializeDisplayForAccount(Acct(w))
  /\ wk' = IF launched
             THEN [wk EXCEPT ![w].pc = "loadCookies", ![w].ranDriver = TRUE,
                             ![w].browser = TRUE]
             ELSE [Raise(w, "LaunchFailed") EXCEPT ![w].ranDriver = TRUE]
  /\ UNCHANGED <<account, reelRows, outreachRows, session, inbox, botQueue, req,
                 nextReq, utilVars>>

(***************************************************************************)
(* sessionManager.  The writes of saveSession and deleteSession are taken  *)
(* to succeed (their failures are logged and ignored).                     *)
(***************************************************************************)
sessionExists(a) == session[a] # "none"

loadSessionUnchecked(blob) == blob

\* loadSession: null when there is no file or JSON.parse throws.
loadSession(blob) == IF blob \in {"valid", "expired"} THEN blob ELSE "null"

saveSession(a, cookies) == [session EXCEPT ![a] = cookies]

deleteSession(a) == [session EXCEPT ![a] = "none"]

\* Lines 1484-1492: the cookies of the saved session go into the context
\* when the file exists and loadSession returns them.
LoadCookies(w) ==
  /\ wk[w].pc = "loadCookies"
  /\ LET sd == loadSession(session[Acct(w)]) IN
       wk' = [wk EXCEPT ![w].pc = "session",
                        ![w].cookies =
                           IF sessionExists(Acct(w)) /\ sd # "null"
                             THEN sd ELSE "none"]
  /\ UNCHANGED <<account, dbVars, session, inbox, displayVars, utilVars, botQueue, req,
                 nextReq>>

isLoggedInNever(cookies) == FALSE

\* The page is logged in when the context holds cookies Instagram accepts.
isLoggedIn(cookies) == cookies = "valid"

\* Lines 1494-1517: without a session file the run logs in; with one it
\* verifies the session, and when the page is not logged in it deletes the
\* file and logs in.
Session(w) ==
  /\ wk[w].pc = "session"
  /\ LET a == Acct(w) IN
       IF ~sessionExists(a)
         THEN /\ wk' = [wk EXCEPT ![w].pc = "login"]
              /\ UNCHANGED session
       ELSE IF ~isLoggedIn(wk[w].cookies)
         THEN /\ wk' = [wk EXCEPT ![w].pc = "login"]
              /\ session' = deleteSession(a)
       ELSE /\ wk' = [wk EXCEPT ![w].pc = "collectStart",
                                ![w].established = "saved"]
            /\ UNCHANGED session
  /\ UNCHANGED <<account, dbVars, inbox, displayVars, utilVars, botQueue, req, nextReq>>

\* loginToInstagram (it throws when the form is not found, when no password
\* is stored, line 80, or when Instagram rejects the login), context.cookies
\* and saveSession, lines 1496-1499 and 1519-1521.
Login(w, loginOk) ==
  /\ wk[w].pc = "login"
  /\ IF loginOk /\ accountPassword[Acct(w)] = "null"
       THEN /\ wk' = Raise(w, "PasswordNotAvailable")
            /\ UNCHANGED session
     ELSE IF loginOk
       THEN /\ session' = saveSession(Acct(w), "valid")
            /\ wk' = [wk EXCEPT ![w].pc = "collectStart",
                                ![w].cookies = "valid",
                                ![w].established = "login"]
       ELSE /\ wk' = Raise(w, "LoginFailed")
            /\ UNCHANGED session
  /\ UNCHANGED <<account, dbVars, inbox, displayVars, utilVars, botQueue, req, nextReq>>

(***************************************************************************)
(* collectReels.                                                           *)
(***************************************************************************)
\* Lines 1302-1323: open the feed, wait for the first video.
CollectStart(w, video) ==
  /\ wk[w].pc = "collectStart"
  /\ logs' = saveLogToDB(logs, account, Acct(w), "info", "Starting collectReels")
  /\ wk' = IF video
             THEN [wk EXCEPT ![w].pc = "loopHead", ![w].reelCount = 0,
                             ![w].consecutiveFailures = 0, ![w].seen = {},
                             ![w].established = "none"]
             ELSE Raise(w, "NoVideo")
  /\ UNCHANGED <<account, reelRows, outreachRows, session, inbox, displayVars, utilVars,
                 botQueue, req, nextReq>>

LoopIgnoresStatus(acc) == acc.exists

\* The status values for which the loop goes on (line 1328).
LoopContinues(acc) == acc.exists /\ acc.status = "running"

\* The exceptions that leave collectReels.
CollectErrors == {"NoVideo", "PageError", "DbError"}

\* collectReels returns: its locals are gone, `exit` keeps why the loop ended.
Break(w, why) ==
  [wk EXCEPT ![w].pc = "finish", ![w].exit = why, ![w].reelCount = 0,
             ![w].consecutiveFailures = 0, ![w].seen = {}]

\* Lines 1325-1332: the loop condition, the status poll and the failure
\* budget; leaving the loop is a plain break in all three cases.
LoopHead(w) ==
  /\ wk[w].pc = "loopHead"
  /\ LET a == Acct(w) IN
       IF wk[w].reelCount >= maxReels
         THEN /\ wk' = Break(w, "limit")
              /\ UNCHANGED logs
       ELSE IF ~LoopContinues(account[a])
         THEN /\ wk' = Break(w, "stopped")
              /\ UNCHANGED logs
       ELSE IF wk[w].consecutiveFailures >= MaxFailures
         THEN /\ wk' = Break(w, "stuck")
              /\ logs' = saveLogToDB(logs, account, a, "warn",
                                     "Too many consecutive failures")
       ELSE /\ wk' = [wk EXCEPT ![w].pc = "extract"]
            /\ UNCHANGED logs
  /\ UNCHANGED <<account, reelRows, outreachRows, session, inbox, displayVars, utilVars,
                 botQueue, req, nextReq>>

ReelFoundNever(rows, k) == FALSE

\* prisma.reel.findFirst for (account, url), lines 1403-1405.
ReelFound(rows, k) == rows[k] > 0

\* Lines 1334-1416: the like-count gate, the full extraction, the 'seen'
\* check and the lookup of the reel row.
Extract(w, i, likes, complete) ==
  /\ wk[w].pc = "extract"
  /\ wk' = [wk EXCEPT ![w] =
       IF likes < MIN_LIKES \/ ~complete \/ i \in @.seen
         THEN [@ EXCEPT !.pc = "scroll", !.item = 0]
         ELSE [@ EXCEPT !.pc = IF ReelFound(reelRows, <<Acct(w), i>>)
                                 THEN "outreachFind" ELSE "reelCreate",
                        !.item = i, !.seen = @ \cup {i},
                        !.consecutiveFailures = 0]]
  /\ UNCHANGED <<account, dbVars, session, inbox, displayVars, utilVars, botQueue, req,
                 nextReq>>

\* Lines 1405-1416: prisma.reel.create; it throws when the account row is
\* gone or the store rejects the row, and the exception ends the run.
ReelCreate(w) ==
  /\ wk[w].pc = "reelCreate"
  /\ LET k == <<Acct(w), wk[w].item>> IN
       IF account[Acct(w)].exists /\ ReelUnique(reelRows, k)
         THEN /\ reelRows' = [reelRows EXCEPT ![k] = @ + 1]
              /\ wk' = [wk EXCEPT ![w].pc = "outreachFind"]
         ELSE /\ wk' = Raise(w, "DbError")
              /\ UNCHANGED reelRows
  /\ UNCHANGED <<account, logs, outreachRows, session, inbox, displayVars, utilVars, botQueue,
                 req, nextReq>>

AlreadyNever(rows, reelId, targetUser) == FALSE

\* prisma.outreach.findFirst for (reel, user), lines 1421-1425.
Already(rows, reelId, targetUser) == OutreachFor(rows, reelId, targetUser) # {}

\* Lines 1421-1434: the candidate is skipped when a row is found.
OutreachFind(w) ==
  /\ wk[w].pc = "outreachFind"
  /\ LET k == <<Acct(w), wk[w].item>> IN
       wk' = [wk EXCEPT ![w].pc =
                IF Already(outreachRows, k, Author(wk[w].item))
                  THEN "scroll" ELSE "outreach"]
  /\ UNCHANGED <<account, dbVars, session, inbox, displayVars, utilVars, botQueue, req,
                 nextReq>>

(***************************************************************************)
(* processReelOutreach.  deliver is "failed" when a step before the send   *)
(* throws (profile navigation, message button, composer, empty template);  *)
(* otherwise the message is typed and `sent` tells whether a send control  *)
(* or the Enter key was pressed.  back is how the browser returns to the   *)
(* feed: "back" (goBack lands on /reels, early return of line 1278),       *)
(* "fallback" (ensureOnReelsPage navigates), "fallbackThrows"              *)
(* (ensureOnReelsPage throws into the catch of line 1294) or               *)
(* "loginRedirect" (the navigation of ensureOnReelsPage is redirected to   *)
(* the login page, lines 1069-1074, which throws into the same catch).     *)
(***************************************************************************)
DeliverOutcomes == {"failed", "typed"}
BackOutcomes == {"back", "fallback", "fallbackThrows", "loginRedirect"}

\* Whether the path writes the record of lines 1287-1291.
RecordsOutreach(deliver, back) == deliver = "typed" /\ back = "fallback"

processReelOutreachThrows(w, deliver, sent, back) ==
  /\ wk[w].pc = "outreach"
  /\ LET a == Acct(w)
         k == <<a, wk[w].item>>
         reel == reelRows[k] > 0
         create == RecordsOutreach(deliver, back) /\ reel
         rejected == create /\ ~OutreachUnique(outreachRows, k,
                                               Author(wk[w].item))
         caught == \/ deliver = "failed"
                   \/ back \in {"fallbackThrows", "loginRedirect"}
                   \/ rejected
     IN /\ outreachRows' =
             IF create /\ ~rejected
               THEN outreachRows (+)
                      SetToBag({OutreachRecord(k, Author(wk[w].item), sent)})
               ELSE outreachRows
        /\ inbox' = IF deliver = "typed" /\ sent
                      THEN inbox \cup {k}
                      ELSE inbox
        /\ logs' = IF caught
                     THEN saveLogToDB(logs, account, a, "error", "Outreach failed")
                     ELSE saveLogToDB(logs, account, a, "info", "Outreach start")
        /\ wk' = IF caught THEN Raise(w, "OutreachFailed")
                 ELSE [wk EXCEPT ![w].pc = "scroll"]
  /\ UNCHANGED <<account, reelRows, session, displayVars, utilVars, botQueue, req,
                 nextReq>>

\* Lines 1098-1298: the profile, the message, the way back to the feed;
\* the catch of line 1294 logs, calls ensureOnReelsPage and returns.
processReelOutreach(w, deliver, sent, back) ==
  /\ wk[w].pc = "outreach"
  /\ LET a == Acct(w)
         k == <<a, wk[w].item>>
         reel == reelRows[k] > 0
         create == RecordsOutreach(deliver, back) /\ reel
         rejected == create /\ ~OutreachUnique(outreachRows, k,
                                               Author(wk[w].item))
         caught == \/ deliver = "failed"
                   \/ back \in {"fallbackThrows", "loginRedirect"}
                   \/ rejected
     IN /\ outreachRows' =
             IF create /\ ~rejected
               THEN outreachRows (+)
                      SetToBag({OutreachRecord(k, Author(wk[w].item), sent)})
               ELSE outreachRows
        /\ inbox' = IF deliver = "typed" /\ sent
                      THEN inbox \cup {k}
                      ELSE inbox
        /\ logs' = IF caught
                     THEN saveLogToDB(logs, account, a, "error", "Outreach failed")
                     ELSE saveLogToDB(logs, account, a, "info", "Outreach start")
        /\ wk' = [wk EXCEPT ![w].pc = "scroll",
                            ![w].res =
                               [success |-> ~caught,
                                sent |-> ~caught /\ sent,
                                deliver |-> deliver,
                                submitted |-> deliver = "typed" /\ sent,
                                via |-> IF deliver = "failed" THEN "none"
                                        ELSE back,
                                ensured |-> caught]]
  /\ UNCHANGED <<account, reelRows, session, displayVars, utilVars, botQueue, req,
                 nextReq>>

\* attemptScrollToNextReel and the bookkeeping that follows each of its four
\* calls: a failure counts, a success resets the count and counts the reel.
Scroll(w, ok) ==
  /\ wk[w].pc = "scroll"
  /\ wk' = [wk EXCEPT ![w] =
       IF ok
         THEN [@ EXCEPT !.pc = "loopHead", !.consecutiveFailures = 0,
                        !.reelCount = @ + 1, !.item = 0, !.res = NoRes]
         ELSE [@ EXCEPT !.pc = "loopHead", !.consecutiveFailures = @ + 1,
                        !.item = 0, !.res = NoRes]]
  /\ UNCHANGED <<account, dbVars, session, inbox, displayVars, utilVars, botQueue, req,
                 nextReq>>

\* A browser call of the cycle that is not inside a try (the second
\* ArrowDown of attemptScrollToNextReel, page.url, waitForTimeout) throws.
ScrollThrows(w) ==
  /\ wk[w].pc = "scroll"
  /\ wk' = Raise(w, "PageError")
  /\ UNCHANGED <<account, dbVars, session, inbox, displayVars, utilVars, botQueue, req,
                 nextReq>>

\* Lines 1448 and 1529-1543: 'collectReels finished', final saveSession,
\* 'Bot finished', the finally block closes page, context and browser.
Finish(w) ==
  /\ wk[w].pc = "finish"
  /\ logs' = saveLogToDB(logs, account, Acct(w), "info", "Bot finished")
  /\ session' = saveSession(Acct(w), wk[w].cookies)
  /\ wk' = [wk EXCEPT ![w].pc = "lastActive", ![w].browser = FALSE,
                      ![w].cookies = "none", ![w].savedFinal = TRUE]
  /\ UNCHANGED <<account, reelRows, outreachRows, inbox, displayVars, utilVars,
                 botQueue, req, nextReq>>

\* Lines 1535-1543: 'Bot error' is logged, the error is thrown again and the
\* finally block closes what was opened.
BotCatch(w) ==
  /\ wk[w].pc = "botCatch"
  /\ logs' = saveLogToDB(logs, account, Acct(w), "error", "Bot error")
  /\ wk' = [wk EXCEPT ![w].pc = "catch", ![w].browser = FALSE]
  /\ UNCHANGED <<account, reelRows, outreachRows, session, inbox, displayVars, utilVars,
                 botQueue, req, nextReq>>

(***************************************************************************)
(* Job handler after the run.                                              *)
(***************************************************************************)
SuccessUpdateIdle(acc) == [acc EXCEPT !.lastActive = "now", !.status = "idle"]

\* The data of the update after a successful run: { lastActive: new Date() }.
SuccessUpdate(acc) == [acc EXCEPT !.lastActive = "now"]

\* Lines 36-43: prisma.account.update lastActive (P2025 when the row is gone).
LastActive(w) ==
  /\ wk[w].pc = "lastActive"
  /\ LET a == Acct(w) IN
       IF account[a].exists
         THEN /\ account' = [account EXCEPT ![a] = SuccessUpdate(@)]
              /\ wk' = [wk EXCEPT ![w].pc = "return"]
         ELSE /\ wk' = [wk EXCEPT ![w].pc = "catch",
                                  ![w].error = "RecordNotFound"]
              /\ UNCHANGED account
  /\ UNCHANGED <<dbVars, session, inbox, displayVars, utilVars, botQueue, req, nextReq>>

CatchStatusStopped == "stopped"

\* The status the catch block writes.
CatchStatus == "error"

\* The exception the catch block throws.
Rethrown(error) == error

\* Lines 44-65: saveLogToDB 'Bot job failed', status ERROR (both writes fail
\* silently when the row is gone), throw error.
Catch(w) ==
  /\ wk[w].pc = "catch"
  /\ LET a == Acct(w) IN
       /\ logs' = saveLogToDB(logs, account, a, "error", "Bot job failed")
       /\ account' = IF account[a].exists
                       THEN [account EXCEPT ![a].status = CatchStatus]
                       ELSE account
  /\ wk' = [wk EXCEPT ![w].pc = "throw", ![w].thrown = Rethrown(wk[w].error)]
  /\ UNCHANGED <<reelRows, outreachRows, session, inbox, displayVars, utilVars, botQueue, req,
                 nextReq>>

\* The handler returned: the job is completed and leaves the queue.
JobCompleted(w) ==
  /\ wk[w].pc = "return"
  /\ wk' = [wk EXCEPT ![w] = IdleWorker]
  /\ UNCHANGED <<account, dbVars, session, inbox, displayVars, utilVars, botQueue, req, nextReq>>

\* Whether the queue tries a job again after its attempt failed.
Retries(attemptsMade) == attemptsMade + 1 < attempts

\* The handler threw: the queue schedules another attempt (after the backoff
\* delay) until `attempts` attempts were made, then the job is failed.
JobFailed(w) ==
  /\ wk[w].pc = "throw"
  /\ botQueue' = IF Retries(wk[w].job.attemptsMade)
                   THEN botQueue \cup
                          {[wk[w].job EXCEPT !.attemptsMade = @ + 1]}
                   ELSE botQueue
  /\ wk' = [wk EXCEPT ![w] = IdleWorker]
  /\ UNCHANGED <<account, dbVars, session, inbox, displayVars, utilVars, req, nextReq>>

(***************************************************************************)
(* The system.                                                             *)
(***************************************************************************)
RunStep(w) ==
  \/ FindAccount(w)
  \/ \E launched \in BOOLEAN : BotStart(w, launched)
  \/ LoadCookies(w)
  \/ Session(w)
  \/ \E loginOk \in BOOLEAN : Login(w, loginOk)
  \/ \E video \in BOOLEAN : CollectStart(w, video)
  \/ LoopHead(w)
  \/ ReelCreate(w)
  \/ OutreachFind(w)
  \/ \E deliver \in DeliverOutcomes, sent \in BOOLEAN, back \in BackOutcomes :
       processReelOutreach(w, deliver, sent, back)
  \/ \E ok \in BOOLEAN : Scroll(w, ok)
  \/ ScrollThrows(w)
  \/ Finish(w)
  \/ BotCatch(w)
  \/ LastActive(w)
  \/ Catch(w)
  \/ JobCompleted(w)
  \/ JobFailed(w)

WorkerStep(w) ==
  \/ RunStep(w)
  \/ \E i \in Items, likes \in {MIN_LIKES - 1, MIN_LIKES}, complete \in BOOLEAN :
       Extract(w, i, likes, complete)

Next ==
  \/ \E a \in Accounts : StartFind(a)
  \/ \E j \in JobIds : StartUpdate(j)
  \/ \E j \in JobIds : StartAddJob(j)
  \/ \E a \in Accounts : StopAccount(a)
  \/ \E a \in Accounts, s \in ManualStatus : UpdateAccount(a, s)
  \/ \E a \in Accounts : DeleteAccount(a)
  \/ \E w \in Workers : Dispatch(w)
  \/ \E w \in Workers : WorkerStep(w)

Spec == Init /\ [][Next]_vars

\* The engine with one slot of the pool in use, for the progress of a run:
\* every browser and database call of a run returns, so a handler that can
\* take its next step takes it.
SoloNext ==
  \/ \E a \in Accounts : StartFind(a)
  \/ \E j \in JobIds : StartUpdate(j)
  \/ \E j \in JobIds : StartAddJob(j)
  \/ \E a \in Accounts : StopAccount(a)
  \/ \E a \in Accounts, s \in ManualStatus : UpdateAccount(a, s)
  \/ \E a \in Accounts : DeleteAccount(a)
  \/ Dispatch(1)
  \/ WorkerStep(1)

FairSpec == Init /\ [][SoloNext]_vars /\ WF_vars(WorkerStep(1))

(***************************************************************************)
(* proxyManager: the proxy list, the rotation cursor and the three calls.  *)
(***************************************************************************)
MaxProxies == 3         \* length the proxy list may reach
MaxNextCalls == 4       \* calls of getNextProxy in one behaviour
MaxProxyAccount == 6    \* account ids 0..MaxProxyAccount looked up

ProxyUrls == {"http://p1", "http://p2", "http://p3"}
ProxyAccountIds == 0..MaxProxyAccount
Null == "null"

RECURSIVE SeqsUpTo(_, _)
SeqsUpTo(S, n) ==
  IF n = 0 THEN {<< >>}
  ELSE LET shorter == SeqsUpTo(S, n - 1) IN
         shorter \cup {Append(q, x) : q \in shorter, x \in S}

Includes(list, x) == \E k \in 1..Len(list) : list[k] = x

getProxyForAccountRotating(accountId) ==
  IF Len(proxies) = 0 THEN Null
  ELSE proxies[((accountId + proxyIndex) % Len(proxies)) + 1]

\* proxies[accountId % proxies.length], or null for an empty list.
getProxyForAccount(accountId) ==
  IF Len(proxies) = 0 THEN Null
  ELSE proxies[(accountId % Len(proxies)) + 1]

GetProxyForAccount(accountId) ==
  /\ proxyOut' = [fn |-> "forAccount", arg |-> accountId,
                  value |-> getProxyForAccount(accountId)]
  /\ UNCHANGED <<proxies, proxyIndex, outsideProxy>>

\* proxies[proxyIndex % proxies.length], then proxyIndex++; null and no
\* move of the cursor for an empty list.
getNextProxy ==
  /\ proxyIndex < MaxNextCalls
  /\ IF Len(proxies) = 0
       THEN /\ proxyOut' = [fn |-> "next", arg |-> 0, value |-> Null]
            /\ UNCHANGED proxyIndex
       ELSE /\ proxyOut' = [fn |-> "next", arg |-> proxyIndex,
                            value |-> proxies[(proxyIndex % Len(proxies)) + 1]]
            /\ proxyIndex' = proxyIndex + 1
  /\ UNCHANGED <<proxies, outsideProxy>>

\* proxies.push(proxyUrl) unless the list includes it.
addProxy(proxyUrl) ==
  /\ Len(proxies) < MaxProxies
  /\ proxies' = IF Includes(proxies, proxyUrl)
                  THEN proxies ELSE Append(proxies, proxyUrl)
  /\ proxyOut' = [fn |-> "add", arg |-> 0, value |-> proxyUrl]
  /\ UNCHANGED <<proxyIndex, outsideProxy>>

ProxyNext ==
  \/ \E accountId \in ProxyAccountIds : GetProxyForAccount(accountId)
  \/ getNextProxy
  \/ \E proxyUrl \in ProxyUrls : addProxy(proxyUrl)

\* PROXY_LIST is split on ',' as the operator wrote it: any list, an empty
\* one and one that repeats a proxy included.
ProxyInit ==
  /\ EngineInit
  /\ \A a \in Accounts : session[a] = "none"
  /\ proxies \in SeqsUpTo(ProxyUrls, MaxProxies - 1)
  /\ proxyIndex = 0
  /\ proxyOut = NoCall
  /\ VaultIdle
  /\ ParseIdle
  /\ ShownIdle
  /\ PasswordStored
  /\ LoopIdle
  /\ ApiIdle /\ DriverIdle
  /\ ScrollIdle

ProxySpec == ProxyInit /\ [][ProxyNext]_vars

(***************************************************************************)
(* encryption: encryptPassword and decryptPassword (aes-256-cbc).          *)
(* A string is the sequence of its characters and a buffer the sequence of *)
(* its bytes; a byte has two bits, a block and the iv are one byte long.   *)
(***************************************************************************)
MaxPlainLen == 2        \* length of the passwords encrypted
MaxBlobLen == 3         \* length of the stored values decrypted

\* Characters, by code: U+0000, 'a', ':', U+FFFD and an unpaired surrogate.
U0000 == 0
ChA == 1
ChColon == 2
UFFFD == 3
UD800 == 4
Chars == {U0000, ChA, ChColon, UFFFD, UD800}
ByteValues == 4
Bytes == 0..(ByteValues - 1)

\* The characters of a hex string: the digit of a byte, and ':'.
HexBase == 10
HexDigits == {HexBase + b : b \in Bytes}
Sep == 58
NullV == <<-1>>

Plaintexts == SeqsUpTo(Chars, MaxPlainLen)
Blobs == SeqsUpTo(HexDigits \cup {Sep}, MaxBlobLen) \cup {NullV}

\* The key after lines 5-22: Buffer.from(ENCRYPTION_KEY, 'hex') has 32
\* bytes, or fewer when the 64 characters are not all hex digits.
Keys == [bytes : {0, 31, 32}, k : Bytes]

Ret(v) == [threw |-> FALSE, value |-> v]
Throw == [threw |-> TRUE, value |-> << >>]

\* Buffer of a string in utf8: an unpaired surrogate is written as U+FFFD.
Utf8(str) == [i \in 1..Len(str) |-> IF str[i] = UD800 THEN UFFFD ELSE str[i]]

\* String of a buffer in utf8.
FromUtf8(buf) == [i \in 1..Len(buf) |-> buf[i]]

Hex(buf) == [i \in 1..Len(buf) |-> HexBase + buf[i]]

FromHex(str) == [i \in 1..Len(str) |-> str[i] - HexBase]

\* String.prototype.split(':').
RECURSIVE Split(_)
Split(str) ==
  IF \A i \in 1..Len(str) : str[i] # Sep THEN <<str>>
  ELSE LET k == CHOOSE i \in 1..Len(str) :
                  str[i] = Sep /\ \A j \in 1..(i - 1) : str[j] # Sep IN
         <<SubSeq(str, 1, k - 1)>> \o Split(SubSeq(str, k + 1, Len(str)))

\* PKCS#7 padding of a whole number of blocks: one more block.
PadByte == 1

\* The block cipher under key k, and cipher block chaining.
RECURSIVE cbcEncrypt(_, _, _)
cbcEncrypt(k, prev, buf) ==
  IF buf = << >> THEN << >>
  ELSE LET c == (Head(buf) + prev + k + 1) % ByteValues IN
         <<c>> \o cbcEncrypt(k, c, Tail(buf))

RECURSIVE ecbDecrypt(_, _, _)
ecbDecrypt(k, prev, buf) ==
  IF buf = << >> THEN << >>
  ELSE <<(Head(buf) - prev - k - 1 + 2 * ByteValues) % ByteValues>>
         \o ecbDecrypt(k, prev, Tail(buf))

RECURSIVE cbcDecrypt(_, _, _)
cbcDecrypt(k, prev, buf) ==
  IF buf = << >> THEN << >>
  ELSE <<(Head(buf) - prev - k - 1 + 2 * ByteValues) % ByteValues>>
         \o cbcDecrypt(k, Head(buf), Tail(buf))

\* encryptPassword with the iv that crypto.randomBytes gave.
encryptPassword(password, iv) ==
  IF password = << >> \/ password = NullV THEN Ret(NullV)
  ELSE IF ENCRYPTION_KEY.bytes # 32 THEN Throw
  ELSE Ret(Hex(iv) \o <<Sep>>
             \o Hex(cbcEncrypt(ENCRYPTION_KEY.k, iv[1],
                               Utf8(password) \o <<PadByte>>)))

\* decryptPassword: createDecipheriv throws for an iv that is not one block
\* long, final() for no block at all or for a last block that is no padding.
decryptPassword(encryptedPassword) ==
  IF encryptedPassword = << >> \/ encryptedPassword = NullV THEN Ret(NullV)
  ELSE LET parts == Split(encryptedPassword) IN
    IF Len(parts) # 2 THEN Throw
    ELSE LET iv == FromHex(parts[1])
             encrypted == FromHex(parts[2]) IN
      IF ENCRYPTION_KEY.bytes # 32 THEN Throw
      ELSE IF Len(iv) # 1 THEN Throw
      ELSE IF encrypted = << >> THEN Throw
      ELSE LET decrypted == cbcDecrypt(ENCRYPTION_KEY.k, iv[1], encrypted) IN
        IF decrypted[Len(decrypted)] # PadByte THEN Throw
        ELSE Ret(FromUtf8(SubSeq(decrypted, 1, Len(decrypted) - 1)))

\* createAccount / updateAccount: encryptPassword(password).
Encrypt(password, iv) ==
  /\ vault' = [op |-> "encrypt", arg |-> password, blob |-> << >>,
               out |-> encryptPassword(password, iv)]
  /\ UNCHANGED <<ENCRYPTION_KEY, outsideVault>>

\* decryptPassword of any stored value.
Decrypt(encryptedPassword) ==
  /\ vault' = [op |-> "decrypt", arg |-> encryptedPassword,
               blob |-> encryptedPassword,
               out |-> decryptPassword(encryptedPassword)]
  /\ UNCHANGED <<ENCRYPTION_KEY, outsideVault>>

\* The run decrypts the value that encryptPassword returned.
DecryptStored ==
  /\ vault.op = "encrypt"
  /\ ~vault.out.threw
  /\ vault' = [op |-> "roundtrip", arg |-> vault.arg,
               blob |-> vault.out.value,
               out |-> decryptPassword(vault.out.value)]
  /\ UNCHANGED <<ENCRYPTION_KEY, outsideVault>>

VaultNext ==
  \/ \E password \in Plaintexts, iv \in Bytes : Encrypt(password, <<iv>>)
  \/ \E encryptedPassword \in Blobs : Decrypt(encryptedPassword)
  \/ DecryptStored

VaultInit ==
  /\ EngineInit
  /\ \A a \in Accounts : session[a] = "none"
  /\ ProxyIdle
  /\ ENCRYPTION_KEY \in Keys
  /\ vault = [op |-> "none", arg |-> << >>, blob |-> << >>, out |-> Ret(<< >>)]
  /\ ParseIdle
  /\ ShownIdle
  /\ PasswordStored
  /\ LoopIdle
  /\ ApiIdle /\ DriverIdle
  /\ ScrollIdle

VaultSpec == VaultInit /\ [][VaultNext]_vars

(***************************************************************************)
(* parseLikesCount. A text is the sequence of its characters; a number is  *)
(* an IEEE 754 double, kept as a significand of at most 53 bits (a         *)
(* sequence of bits, the lowest first) and a power of two.                 *)
(***************************************************************************)
MaxTextLen == 4         \* length of the texts parsed

TextChars == {"1", "4", ".", ",", "K", "M", "m", "B", " "}
NullText == <<"null">>
Examples ==
  {<<"8", "M">>, <<"1", "0", "0", "K">>, <<"1", ",", "2", "3", "4">>,
   <<"5", "7", ".", "3", "K">>, <<"a", "b", "c">>, NullText}
Texts == SeqsUpTo(TextChars, MaxTextLen) \cup Examples

DigitChars == <<"0", "1", "2", "3", "4", "5", "6", "7", "8", "9">>
IsDigit(c) == \E i \in 1..10 : DigitChars[i] = c
DigitVal(c) == (CHOOSE i \in 1..10 : DigitChars[i] = c) - 1

RECURSIVE trimStart(_)
trimStart(str) ==
  IF str # << >> /\ Head(str) = " " THEN trimStart(Tail(str)) ELSE str

RECURSIVE trimEnd(_)
trimEnd(str) ==
  IF str # << >> /\ str[Len(str)] = " "
    THEN trimEnd(SubSeq(str, 1, Len(str) - 1)) ELSE str

trim(str) == trimEnd(trimStart(str))

toUpperCase(str) ==
  [i \in 1..Len(str) |->
     CASE str[i] = "m" -> "M"
       [] str[i] = "k" -> "K"
       [] str[i] = "a" -> "A"
       [] str[i] = "b" -> "B"
       [] str[i] = "c" -> "C"
       [] OTHER -> str[i]]

\* t.replace(/,/g, '')
removeCommas(str) == SelectSeq(str, LAMBDA c : c # ",")

\* clean.match(/^([\d,.]+)([KM])?$/i): the groups, or no match.
match(clean) ==
  LET suffixed == clean # << >> /\ clean[Len(clean)] \in {"K", "M"}
      g1 == IF suffixed THEN SubSeq(clean, 1, Len(clean) - 1) ELSE clean
      g2 == IF suffixed THEN clean[Len(clean)] ELSE ""
  IN [ok |-> g1 # << >>
               /\ \A i \in 1..Len(g1) : IsDigit(g1[i]) \/ g1[i] \in {",", "."},
      g1 |-> g1, g2 |-> g2]

\* Numbers of any size in binary, the lowest bit first; for the arithmetic
\* a number is cut into limbs of ten bits.
LimbSize == 1024

RECURSIVE Bits(_)
Bits(n) == IF n = 0 THEN << >> ELSE <<n % 2>> \o Bits(n \div 2)

BitAt(bits, i) == IF i <= Len(bits) THEN bits[i] ELSE 0

Shl(bits, n) == [i \in 1..n |-> 0] \o bits

Normalize(bits) ==
  IF \A i \in 1..Len(bits) : bits[i] = 0 THEN << >>
  ELSE SubSeq(bits, 1, CHOOSE k \in 1..Len(bits) :
                         bits[k] = 1 /\ \A j \in (k + 1)..Len(bits) : bits[j] = 0)

ToLimbs(bits) ==
  [j \in 1..((Len(bits) + 9) \div 10) |->
     BitAt(bits, 10 * j - 9) + 2 * BitAt(bits, 10 * j - 8)
       + 4 * BitAt(bits, 10 * j - 7) + 8 * BitAt(bits, 10 * j - 6)
       + 16 * BitAt(bits, 10 * j - 5) + 32 * BitAt(bits, 10 * j - 4)
       + 64 * BitAt(bits, 10 * j - 3) + 128 * BitAt(bits, 10 * j - 2)
       + 256 * BitAt(bits, 10 * j - 1) + 512 * BitAt(bits, 10 * j)]

FromLimbs(limbs) ==
  Normalize([i \in 1..(10 * Len(limbs)) |->
               (limbs[((i - 1) \div 10) + 1] \div (2 ^ ((i - 1) % 10))) % 2])

RECURSIVE LimbsToNat(_)
LimbsToNat(limbs) ==
  IF limbs = << >> THEN 0 ELSE Head(limbs) + LimbSize * LimbsToNat(Tail(limbs))

ToNat(bits) == LimbsToNat(ToLimbs(bits))

RECURSIVE MulLimbs(_, _, _)
MulLimbs(limbs, c, carry) ==
  IF limbs = << >>
    THEN IF carry = 0 THEN << >>
         ELSE <<carry % LimbSize>> \o MulLimbs(limbs, c, carry \div LimbSize)
  ELSE <<(Head(limbs) * c + carry) % LimbSize>>
         \o MulLimbs(Tail(limbs), c, (Head(limbs) * c + carry) \div LimbSize)

MulSmall(bits, c) == FromLimbs(MulLimbs(ToLimbs(bits), c, 0))

\* Long division of limbs[1..k] (after the remainder rem of the higher
\* limbs) by d: the remainder, followed by the limbs of the quotient.
RECURSIVE DivLimbs(_, _, _, _)
DivLimbs(limbs, d, k, rem) ==
  IF k = 0 THEN <<rem>>
  ELSE Append(DivLimbs(limbs, d, k - 1, (rem * LimbSize + limbs[k]) % d),
              (rem * LimbSize + limbs[k]) \div d)

DivSmall(bits, d) ==
  LET r == DivLimbs(ToLimbs(bits), d, Len(ToLimbs(bits)), 0)
  IN [q |-> FromLimbs(Tail(r)), r |-> r[1]]

RECURSIVE IncLimbs(_)
IncLimbs(limbs) ==
  IF limbs = << >> THEN <<1>>
  ELSE IF Head(limbs) = LimbSize - 1 THEN <<0>> \o IncLimbs(Tail(limbs))
  ELSE <<Head(limbs) + 1>> \o Tail(limbs)

Inc(bits) == FromLimbs(IncLimbs(ToLimbs(bits)))

\* Round to nearest, ties to even, to 53 bits: the significand and the
\* number of low bits dropped. sticky tells that the exact value has a
\* fraction below the lowest bit of bits.
Round53(bits, sticky) ==
  IF Len(bits) <= 53 THEN [m |-> bits, s |-> 0]
  ELSE LET s == Len(bits) - 53
           kept == SubSeq(bits, s + 1, Len(bits))
           up == /\ bits[s] = 1
                 /\ \/ sticky
                    \/ \E i \in 1..(s - 1) : bits[i] = 1
                    \/ kept[1] = 1
           m == IF up THEN Inc(kept) ELSE kept
       IN IF Len(m) = 54 THEN [m |-> Tail(m), s |-> s + 1]
          ELSE [m |-> m, s |-> s]

NaN == [nan |-> TRUE, m |-> << >>, q |-> 0]
Zero == [nan |-> FALSE, m |-> << >>, q |-> 0]

\* The double nearest to n / 10^d.
FromDecimal(n, d) ==
  IF n = 0 THEN Zero
  ELSE LET qr == DivSmall(Shl(Bits(n), 64), 10 ^ d)
           r == Round53(qr.q, qr.r # 0)
       IN [nan |-> FALSE, m |-> r.m, q |-> r.s - 64]

\* parseFloat: the longest prefix that is a decimal literal.
RECURSIVE DigitRun(_)
DigitRun(str) ==
  IF str # << >> /\ IsDigit(Head(str))
    THEN <<Head(str)>> \o DigitRun(Tail(str)) ELSE << >>

RECURSIVE DecimalValue(_)
DecimalValue(digits) ==
  IF digits = << >> THEN 0
  ELSE 10 * DecimalValue(SubSeq(digits, 1, Len(digits) - 1))
         + DigitVal(digits[Len(digits)])

parseFloat(str) ==
  LET int == DigitRun(str)
      rest == SubSeq(str, Len(int) + 1, Len(str))
      frac == IF rest # << >> /\ Head(rest) = "."
                THEN DigitRun(Tail(rest)) ELSE << >>
  IN IF int = << >> /\ frac = << >> THEN NaN
     ELSE FromDecimal(DecimalValue(int \o frac), Len(frac))

\* num * c for an integer c.
Times(num, c) ==
  IF num.nan \/ num.m = << >> THEN num
  ELSE LET r == Round53(MulSmall(num.m, c), FALSE)
       IN [nan |-> FALSE, m |-> r.m, q |-> num.q + r.s]

\* Math.floor of a number that is not negative.
floor(num) ==
  IF num.nan THEN [nan |-> TRUE, n |-> 0]
  ELSE IF num.q >= 0 THEN [nan |-> FALSE, n |-> ToNat(Shl(num.m, num.q))]
  ELSE IF -num.q >= Len(num.m) THEN [nan |-> FALSE, n |-> 0]
  ELSE [nan |-> FALSE, n |-> ToNat(SubSeq(num.m, 1 - num.q, Len(num.m)))]

parseLikesCount(text) ==
  IF text = NullText \/ text = << >> THEN [nan |-> FALSE, n |-> 0]
  ELSE LET t == toUpperCase(trim(text))
           clean == removeCommas(t)
           m == match(clean)
       IN IF ~m.ok THEN [nan |-> FALSE, n |-> 0]
          ELSE IF m.g2 = "M" THEN floor(Times(parseFloat(m.g1), 1000000))
          ELSE IF m.g2 = "K" THEN floor(Times(parseFloat(m.g1), 1000))
          ELSE floor(parseFloat(m.g1))

\* collectReels: parseLikesCount(likesOnly.likesText).
ParseLikes ==
  /\ ~parse.done
  /\ parse' = [parse EXCEPT !.done = TRUE,
                            !.result = parseLikesCount(parse.text)]
  /\ UNCHANGED outsideParse

\* The next item is looked at: another text.
NextLikesText(text) ==
  /\ parse.done
  /\ parse' = [text |-> text, done |-> FALSE, result |-> NoNumber]
  /\ UNCHANGED outsideParse

ParseNext ==
  \/ ParseLikes
  \/ \E text \in Examples : NextLikesText(text)

ParseInit ==
  /\ EngineInit
  /\ \A a \in Accounts : session[a] = "none"
  /\ ProxyIdle
  /\ VaultIdle
  /\ parse \in [text : Texts, done : {FALSE}, result : {NoNumber}]
  /\ ShownIdle
  /\ PasswordStored
  /\ LoopIdle
  /\ ApiIdle /\ DriverIdle
  /\ ScrollIdle

ParseSpec == ParseInit /\ [][ParseNext]_vars

(***************************************************************************)
(* collectReels one await at a time in lines 1334-1400, for a run in slot  *)
(* 1: the like-count gate and the full extraction are separate steps, and  *)
(* what the page showed is kept: the reel, its like text, whether it is an *)
(* advertisement or a livestream, whether extractCurrentReelInfo ran.      *)
(***************************************************************************)
LikeTexts == {NullText, <<"1", "K">>, <<"1", "0", "0", "K">>, <<".">>}

GateSkipsNoText(likesText, likes) == likesText = NullText \/ likesText = << >>

\* Line 1342: !likesOnly.likesText || likes < REEL_FILTERS.MIN_LIKES (a
\* comparison with NaN is false).
GateSkips(likesText, likes) ==
  \/ likesText = NullText \/ likesText = << >>
  \/ ~likes.nan /\ likes.n < MIN_LIKES

\* Lines 1338-1347: extractLikesOnly, parseLikesCount and the gate.
Gate(w, i, likesText, ad, live) ==
  /\ wk[w].pc = "extract"
  /\ shown' = [shown EXCEPT ![w] =
                 [item |-> i, likesText |-> likesText, ad |-> ad,
                  live |-> live, extracted |-> FALSE, complete |-> FALSE]]
  /\ wk' = [wk EXCEPT ![w].pc =
              IF GateSkips(likesText, parseLikesCount(likesText))
                THEN "scroll" ELSE "extractFull",
                      ![w].item = 0]
  /\ UNCHANGED <<account, dbVars, session, inbox, displayVars, proxyVars,
                 vaultVars, parse, scrollVars, accountPassword, loop, driver, response,
                 botQueue, req,
                 nextReq>>

ExtractFullKeepsIncomplete(w, complete) ==
  /\ wk[w].pc = "extractFull"
  /\ shown' = [shown EXCEPT ![w].extracted = TRUE, ![w].complete = complete]
  /\ LET i == shown[w].item IN
       wk' = [wk EXCEPT ![w] =
         IF i \in @.seen
           THEN [@ EXCEPT !.pc = "scroll", !.item = 0]
           ELSE [@ EXCEPT !.pc = IF ReelFound(reelRows, <<Acct(w), i>>)
                                   THEN "outreachFind" ELSE "reelCreate",
                          !.item = i, !.seen = @ \cup {i},
                          !.consecutiveFailures = 0]]
  /\ UNCHANGED <<account, dbVars, session, inbox, displayVars, proxyVars,
                 vaultVars, parse, scrollVars, accountPassword, loop, driver, response,
                 botQueue, req,
                 nextReq>>

\* Lines 1349-1400: extractCurrentReelInfo, the check of the extraction,
\* the 'seen' check and the lookup of the reel row.
ExtractFull(w, complete) ==
  /\ wk[w].pc = "extractFull"
  /\ shown' = [shown EXCEPT ![w].extracted = TRUE, ![w].complete = complete]
  /\ LET i == shown[w].item IN
       wk' = [wk EXCEPT ![w] =
         IF ~complete \/ i \in @.seen
           THEN [@ EXCEPT !.pc = "scroll", !.item = 0]
           ELSE [@ EXCEPT !.pc = IF ReelFound(reelRows, <<Acct(w), i>>)
                                   THEN "outreachFind" ELSE "reelCreate",
                          !.item = i, !.seen = @ \cup {i},
                          !.consecutiveFailures = 0]]
  /\ UNCHANGED <<account, dbVars, session, inbox, displayVars, proxyVars,
                 vaultVars, parse, scrollVars, accountPassword, loop, driver, response,
                 botQueue, req,
                 nextReq>>

CollectNext ==
  \/ \E a \in Accounts : StartFind(a)
  \/ \E j \in JobIds : StartUpdate(j)
  \/ \E j \in JobIds : StartAddJob(j)
  \/ \E a \in Accounts : StopAccount(a)
  \/ \E a \in Accounts, s \in ManualStatus : UpdateAccount(a, s)
  \/ \E a \in Accounts : DeleteAccount(a)
  \/ Dispatch(1)
  \/ RunStep(1)
  \/ \E i \in Items, likesText \in LikeTexts, ad \in BOOLEAN, live \in BOOLEAN :
       Gate(1, i, likesText, ad, live)
  \/ \E complete \in BOOLEAN : ExtractFull(1, complete)

\* The account has not logged in yet: no session file.
CollectInit == Init /\ \A a \in Accounts : session[a] = "none"

CollectSpec == CollectInit /\ [][CollectNext]_vars

(***************************************************************************)
(* attemptScrollToNextReel and waitForReelUpdate, one page read or key     *)
(* press at a time.  The page is Instagram's: its location, its like text  *)
(* and its DOM change at any moment, whether a key was pressed or not.     *)
(* scroll.differed remembers whether a read made after the first ArrowDown *)
(* showed a reel id of the location, or an identifier reel_<id>_<likes>,   *)
(* other than the one recorded before it.                                  *)
(***************************************************************************)
UrlPolls == 10          \* line 946: for (let i = 0; i < 10; i++)
MaxDomPolls == 2        \* polls of waitForReelUpdate before its timeout

ReelIds == {"r1", "r2"}

\* page.url(): a location /reels/<id>/, or one without a reel ("none").
Urls == ReelIds \cup {"none"}

\* What the page can show: the location, the like text extractLikesOnly
\* finds ("null": none), whether a video is at the centre of the viewport,
\* the username and the reel id of the link next to it.
Feeds == [url : Urls, likesText : {"null", "1K", "2K"}, video : BOOLEAN,
          username : {"null", "alice"}, reelId : ReelIds \cup {"null"}]

\* Lines 920-921 and 965-966: match ? match[1] : 'unknown'.
UrlReelId(url) == IF url = "none" THEN "unknown" ELSE url

\* Lines 924 and 977: reel_<reelId>_<likesText || 'unknown'>, or 'unknown'.
UniqueId(reelId, likesText) ==
  IF reelId # "unknown"
    THEN <<"reel", reelId, IF likesText = "null" THEN "unknown" ELSE likesText>>
    ELSE <<"unknown">>

\* Lines 845-899: the evaluate of waitForReelUpdate.
Updated(page, expectedOldUsername, expectedOldReelId) ==
  /\ page.video
  /\ \/ page.username # "null" /\ page.username # expectedOldUsername
     \/ page.reelId # "null" /\ page.reelId # expectedOldReelId

DomVerifiedTrusting(afterId, beforeId, afterReelId, beforeReelId) == TRUE

\* Line 979.
DomVerified(afterId, beforeId, afterReelId, beforeReelId) ==
  afterId # beforeId /\ afterReelId # beforeReelId

\* Line 915: beforeUrl.
ScrollBegin ==
  /\ scroll.pc = "idle"
  /\ scroll' = [NoScroll EXCEPT !.pc = "beforeLikes",
                                !.beforeReelId = UrlReelId(feed.url)]
  /\ UNCHANGED <<feed, outsideScroll>>

\* Lines 919-931: beforeLikes, beforeId, and the return without a reel id.
ScrollBefore ==
  /\ scroll.pc = "beforeLikes"
  /\ scroll' = [scroll EXCEPT
       !.beforeLikes = feed.likesText,
       !.pc = IF scroll.beforeReelId = "unknown" THEN "done" ELSE "press",
       !.ret = IF scroll.beforeReelId = "unknown" THEN "false" ELSE "none"]
  /\ UNCHANGED <<feed, outsideScroll>>

\* Lines 936-942: ArrowDown; what it throws is caught.
ScrollPress ==
  /\ scroll.pc = "press"
  /\ scroll' = [scroll EXCEPT !.pc = "pollUrl", !.pressed = TRUE,
                               !.signals = @ + 1]
  /\ UNCHANGED <<feed, outsideScroll>>

\* Lines 946-955: one turn of the loop on page.url().
ScrollPollUrl ==
  /\ scroll.pc = "pollUrl"
  /\ LET currentReelId == feed.url
         changed == currentReelId # "none"
                      /\ currentReelId # scroll.beforeReelId
     IN scroll' = [scroll EXCEPT
          !.urlChanged = changed,
          !.polls = IF changed THEN @ ELSE @ + 1,
          !.pc = IF changed \/ scroll.polls + 1 = UrlPolls
                   THEN "domWait" ELSE "pollUrl",
          !.differed = @ \/ UrlReelId(feed.url) # scroll.beforeReelId]
  /\ UNCHANGED <<feed, outsideScroll>>

\* Lines 844-907: one turn of the loop of waitForReelUpdate(page, accountId,
\* null, beforeReelId, 3000).
ScrollDomPoll ==
  /\ scroll.pc = "domWait"
  /\ LET updated == Updated(feed, "null", scroll.beforeReelId) IN
       /\ updated \/ scroll.domPolls < MaxDomPolls
       /\ scroll' = [scroll EXCEPT
            !.domUpdated = updated,
            !.domPolls = IF updated THEN @ ELSE @ + 1,
            !.pc = IF updated THEN "afterUrl" ELSE "domWait"]
  /\ UNCHANGED <<feed, outsideScroll>>

\* Lines 844 and 909-910: the 3000 ms are over.
ScrollDomTimeout ==
  /\ scroll.pc = "domWait"
  /\ scroll' = [scroll EXCEPT !.domUpdated = FALSE, !.pc = "afterUrl"]
  /\ UNCHANGED <<feed, outsideScroll>>

\* Lines 964-971: afterReelId and the first success test.
ScrollAfterUrl ==
  /\ scroll.pc = "afterUrl"
  /\ LET afterReelId == UrlReelId(feed.url)
         success == scroll.urlChanged
                      \/ (afterReelId # "unknown"
                            /\ afterReelId # scroll.beforeReelId)
     IN scroll' = [scroll EXCEPT
          !.afterReelId = afterReelId,
          !.ret = IF success THEN "true" ELSE "none",
          !.pc = IF success THEN "done"
                 ELSE IF scroll.domUpdated THEN "afterLikes" ELSE "retry",
          !.differed = @ \/ afterReelId # scroll.beforeReelId]
  /\ UNCHANGED <<feed, outsideScroll>>

ScrollAfterLikesGivesUp ==
  /\ scroll.pc = "afterLikes"
  /\ LET beforeId == UniqueId(scroll.beforeReelId, scroll.beforeLikes)
         afterId == UniqueId(scroll.afterReelId, feed.likesText)
         success == DomVerified(afterId, beforeId, scroll.afterReelId,
                                scroll.beforeReelId)
     IN scroll' = [scroll EXCEPT
          !.ret = IF success THEN "true" ELSE "false",
          !.pc = "done",
          !.differed = @ \/ afterId # beforeId]
  /\ UNCHANGED <<feed, outsideScroll>>

\* Lines 974-983: afterLikes, afterId and the test on the identifiers.
ScrollAfterLikes ==
  /\ scroll.pc = "afterLikes"
  /\ LET beforeId == UniqueId(scroll.beforeReelId, scroll.beforeLikes)
         afterId == UniqueId(scroll.afterReelId, feed.likesText)
         success == DomVerified(afterId, beforeId, scroll.afterReelId,
                                scroll.beforeReelId)
     IN scroll' = [scroll EXCEPT
          !.ret = IF success THEN "true" ELSE "none",
          !.pc = IF success THEN "done" ELSE "retry",
          !.differed = @ \/ afterId # beforeId]
  /\ UNCHANGED <<feed, outsideScroll>>

\* Lines 986-988: the second ArrowDown, outside any try: it throws or not.
ScrollRetry(throws) ==
  /\ scroll.pc = "retry"
  /\ scroll' = [scroll EXCEPT !.pc = IF throws THEN "thrown" ELSE "final",
                               !.signals = @ + 1]
  /\ UNCHANGED <<feed, outsideScroll>>

\* Lines 990-1000: finalReelId and the last test.
ScrollFinal ==
  /\ scroll.pc = "final"
  /\ LET finalReelId == feed.url
         success == finalReelId # "none" /\ finalReelId # scroll.beforeReelId
     IN scroll' = [scroll EXCEPT
          !.ret = IF success THEN "true" ELSE "false",
          !.pc = "done",
          !.differed = @ \/ UrlReelId(feed.url) # scroll.beforeReelId]
  /\ UNCHANGED <<feed, outsideScroll>>

\* The caller has the result (or the exception); it may call again.
ScrollReturn ==
  /\ scroll.pc \in {"done", "thrown"}
  /\ scroll' = NoScroll
  /\ UNCHANGED <<feed, outsideScroll>>

\* Instagram changes the page: its location, the like text it shows, or
\* the video and the link at the centre of the viewport.
FeedChange(page) ==
  /\ page # feed
  /\ \/ page = [feed EXCEPT !.url = page.url]
     \/ page = [feed EXCEPT !.likesText = page.likesText]
     \/ page = [feed EXCEPT !.video = page.video,
                            !.username = page.username,
                            !.reelId = page.reelId]
  /\ feed' = page
  /\ UNCHANGED <<scroll, outsideScroll>>

ScrollNext ==
  \/ ScrollBegin
  \/ ScrollBefore
  \/ ScrollPress
  \/ ScrollPollUrl
  \/ ScrollDomPoll
  \/ ScrollDomTimeout
  \/ ScrollAfterUrl
  \/ ScrollAfterLikes
  \/ \E throws \in BOOLEAN : ScrollRetry(throws)
  \/ ScrollFinal
  \/ ScrollReturn
  \/ \E page \in Feeds : FeedChange(page)

ScrollInit ==
  /\ EngineInit
  /\ \A a \in Accounts : session[a] = "none"
  /\ ProxyIdle
  /\ VaultIdle
  /\ ParseIdle
  /\ ShownIdle
  /\ PasswordStored
  /\ LoopIdle
  /\ ApiIdle /\ DriverIdle
  /\ scroll = NoScroll
  /\ feed \in Feeds

ScrollSpec == ScrollInit /\ [][ScrollNext]_vars

(***************************************************************************)
(* The pool of botWorker under load: more jobs wait in 'bot-worker' than   *)
(* the worker has slots (concurrency: config.MAX_CONCURRENT_BOTS), and the *)
(* jobs that fail come back for their next attempt.                        *)
(***************************************************************************)
MaxPoolJobs == 3        \* jobs added to the queue before the worker starts

PoolJobs == 1..MaxPoolJobs

\* The start requests of the jobs are over: each wrote 'running' and added
\* its job (a stop request came between two of them).
PoolInit ==
  /\ account = [a \in Accounts |->
                  [exists |-> TRUE, status |-> "running", lastActive |-> "now"]]
  /\ logs = [a \in Accounts |-> NoLog]
  /\ session = [a \in Accounts |-> "none"]
  /\ displayUsage = {}
  /\ xvfb = EmptyBag
  /\ vnc = EmptyBag
  /\ call = [c \in Callers |-> IdleCall]
  /\ reelRows = [k \in Accounts \X Items |-> 0]
  /\ outreachRows = EmptyBag
  /\ inbox = {}
  /\ \E a \in Accounts :
       /\ botQueue = {[id |-> j, accountId |-> a, attemptsMade |-> 0] :
                        j \in PoolJobs}
       /\ req = [j \in PoolJobs |->
                   [accountId |-> a, pc |-> "none", wrote |-> TRUE]]
  /\ nextReq = MaxPoolJobs + 1
  /\ wk = [w \in Workers |-> IdleWorker]
  /\ UtilInit

PoolNext ==
  \/ \E w \in Workers : Dispatch(w)
  \/ \E w \in Workers : WorkerStep(w)

PoolSpec == PoolInit /\ [][PoolNext]_vars

(***************************************************************************)
(* The engine for accounts created with or without a password (the body of *)
(* POST /api/accounts may leave the password out), none of them with a     *)
(* saved session.                                                          *)
(***************************************************************************)
ManualInit ==
  /\ EngineInit
  /\ \A a \in Accounts : session[a] = "none"
  /\ ProxyIdle
  /\ VaultIdle
  /\ ParseIdle
  /\ ShownIdle
  /\ ScrollIdle
  /\ accountPassword \in [Accounts -> {"null", "stored"}]
  /\ LoopIdle
  /\ ApiIdle /\ DriverIdle

ManualSpec == ManualInit /\ [][SoloNext]_vars

(***************************************************************************)
(* The loop of collectReels (lines 1319-1446) reduced to what decides how  *)
(* long it runs: reelCount, consecutiveFailures and the status poll.  The  *)
(* feed has no end: an extraction can always come back with a reel whose   *)
(* uniqueId is not in 'seen', so of the set only "is anything in it" is    *)
(* kept.  Every browser and database call returns.                         *)
(***************************************************************************)
outsideLoop == <<logs, session, displayVars, reelRows, outreachRows, inbox,
                botQueue, req, nextReq, wk, proxyVars, vaultVars, parse,
                shown, scrollVars, accountPassword, driver, response>>

\* The account of the run in slot w.
LoopAccount(w) == ((w - 1) % NumAccounts) + 1

ExtractionOutcomes == {"incomplete", "seen", "new"}

\* Lines 1319-1323: reels, seen, reelCount, consecutiveFailures.
LoopEnter(w) ==
  /\ loop[w].pc = "idle"
  /\ loop' = [loop EXCEPT ![w] = [NoLoop EXCEPT !.pc = "head"]]
  /\ UNCHANGED <<account, outsideLoop>>

\* Lines 1325-1332: the loop condition, the status poll, the budget.
LoopCheck(w) ==
  /\ loop[w].pc = "head"
  /\ loop' = [loop EXCEPT ![w].pc =
       IF loop[w].reelCount >= maxReels THEN "returned"
       ELSE IF ~LoopContinues(account[LoopAccount(w)]) THEN "returned"
       ELSE IF loop[w].consecutiveFailures >= MaxFailures THEN "returned"
       ELSE "gate"]
  /\ UNCHANGED <<account, outsideLoop>>

\* Lines 1338-1347: the like-count gate.
LoopGate(w, below) ==
  /\ loop[w].pc = "gate"
  /\ loop' = [loop EXCEPT ![w].pc = IF below THEN "advance" ELSE "full"]
  /\ UNCHANGED <<account, outsideLoop>>

\* Lines 1355-1434: the full extraction; an incomplete or a seen reel goes
\* to the advance; a new one is added to 'seen', resets consecutiveFailures
\* (line 1400), is saved and gets its outreach, then goes to the advance.
LoopExtract(w, outcome) ==
  /\ loop[w].pc = "full"
  /\ outcome = "seen" => loop[w].seen
  /\ loop' = [loop EXCEPT ![w] =
       IF outcome = "new"
         THEN [@ EXCEPT !.pc = "advance", !.seen = TRUE,
                        !.consecutiveFailures = 0]
         ELSE [@ EXCEPT !.pc = "advance"]]
  /\ UNCHANGED <<account, outsideLoop>>

\* Lines 1344-1345, 1386-1387, 1394-1395 and 1438-1445: the advance and
\* its bookkeeping.
LoopAdvance(w, ok) ==
  /\ loop[w].pc = "advance"
  /\ loop' = [loop EXCEPT ![w] =
       IF ok
         THEN [@ EXCEPT !.pc = "head", !.consecutiveFailures = 0,
                        !.reelCount = @ + 1]
         ELSE [@ EXCEPT !.pc = "head", !.consecutiveFailures = @ + 1]]
  /\ UNCHANGED <<account, outsideLoop>>

\* Lines 1448-1449: collectReels returns; the slot is free for a next run.
LoopReturn(w) ==
  /\ loop[w].pc = "returned"
  /\ loop' = [loop EXCEPT ![w] = NoLoop]
  /\ UNCHANGED <<account, outsideLoop>>

LoopStep(w) ==
  \/ LoopEnter(w)
  \/ LoopCheck(w)
  \/ \E below \in BOOLEAN : LoopGate(w, below)
  \/ \E outcome \in ExtractionOutcomes : LoopExtract(w, outcome)
  \/ \E ok \in BOOLEAN : LoopAdvance(w, ok)
  \/ LoopReturn(w)

LoopNext ==
  \/ \E w \in Workers : LoopStep(w)
  \/ \E a \in Accounts : StopAccount(a)
  \/ \E a \in Accounts, s \in ManualStatus : UpdateAccount(a, s)

\* The accounts were started: their status is 'running'.
LoopInit ==
  /\ account = [a \in Accounts |->
                  [exists |-> TRUE, status |-> "running", lastActive |-> "now"]]
  /\ logs = [a \in Accounts |-> NoLog]
  /\ session = [a \in Accounts |-> "valid"]
  /\ displayUsage = {}
  /\ xvfb = EmptyBag
  /\ vnc = EmptyBag
  /\ call = [c \in Callers |-> IdleCall]
  /\ reelRows = [k \in Accounts \X Items |-> 0]
  /\ outreachRows = EmptyBag
  /\ inbox = {}
  /\ botQueue = {}
  /\ req = [j \in JobIds |-> IdleReq]
  /\ nextReq = 1
  /\ wk = [w \in Workers |-> IdleWorker]
  /\ UtilInit

\* Every call of the loop returns: a run that can take a step takes one.
LoopSpec ==
  LoopInit /\ [][LoopNext]_vars /\ \A w \in Workers : WF_vars(LoopStep(w))

(***************************************************************************)
(* accountController: the six operations with the body each one sends.     *)
(* A body is the set of its top-level keys, the keys of the object under   *)
(* its key 'account' when it has one, and what stands under a key          *)
(* 'password' anywhere in it: "absent", "null" or the "stored" ciphertext. *)
(***************************************************************************)
outsideApi == <<logs, session, reelRows, outreachRows, inbox, wk, proxyVars,
                vaultVars, parse, shown, scrollVars, loop, driver>>

\* The columns of a row of prisma.account.
AccountColumns == {"id", "username", "password", "status", "proxy",
                   "sessionPath", "lastActive", "createdAt", "updatedAt"}

\* Lines 13-25: the select of findMany.
Selected == {"id", "username", "status", "proxy", "sessionPath",
             "lastActive", "createdAt", "updatedAt", "_count"}

\* const { password: _, ...accountResponse } = account.
WithoutPassword(row) == row \ {"password"}

Body(op, status, fields) ==
  [op |-> op, status |-> status, fields |-> fields, account |-> {},
   password |-> "absent"]

ErrorBody(op, status) == Body(op, status, {"error"})

\* Lines 10-39: every row by the select, with vncPort added.
getAccounts ==
  /\ response' = Body("list", 200,
                      IF \E a \in Accounts : account[a].exists
                        THEN Selected \cup {"vncPort"} ELSE {})
  /\ UNCHANGED <<account, accountPassword, botQueue, req, nextReq,
                 displayVars, outsideApi>>

\* Lines 41-75: the row with its reels and logs, the password taken out.
getAccount(a) ==
  /\ response' =
       IF account[a].exists
         THEN Body("detail", 200,
                   WithoutPassword(AccountColumns \cup {"reels", "logs"})
                     \cup {"vncPort"})
         ELSE ErrorBody("detail", 404)
  /\ UNCHANGED <<account, accountPassword, botQueue, req, nextReq,
                 displayVars, outsideApi>>

\* Lines 77-116: the row is created 'idle' with the encrypted password, or
\* null when none was given; P2002 answers 409.
createAccount(a, given) ==
  /\ IF account[a].exists
       THEN /\ response' = ErrorBody("create", 409)
            /\ UNCHANGED <<account, accountPassword>>
       ELSE /\ account' = [account EXCEPT ![a] =
                 [exists |-> TRUE, status |-> "idle", lastActive |-> "none"]]
            /\ accountPassword' = [accountPassword EXCEPT ![a] =
                 IF given THEN "stored" ELSE "null"]
            /\ response' = Body("create", 201, WithoutPassword(AccountColumns))
  /\ UNCHANGED <<botQueue, req, nextReq, displayVars, outsideApi>>

\* Lines 118-150: the update of status and password; P2025 answers 404.
updateAccount(a, s, given) ==
  /\ IF account[a].exists
       THEN /\ account' = [account EXCEPT ![a].status = s]
            /\ accountPassword' = [accountPassword EXCEPT ![a] =
                 IF given THEN "stored" ELSE @]
            /\ response' = Body("update", 200, WithoutPassword(AccountColumns))
       ELSE /\ response' = ErrorBody("update", 404)
            /\ UNCHANGED <<account, accountPassword>>
  /\ UNCHANGED <<botQueue, req, nextReq, displayVars, outsideApi>>

\* Lines 179-185: the two early returns of startAccount.
startAccountReject(a) ==
  /\ ~StartAccepts(a)
  /\ response' = ErrorBody("start", IF account[a].exists THEN 400 ELSE 404)
  /\ UNCHANGED <<account, accountPassword, botQueue, req, nextReq,
                 displayVars, outsideApi>>

\* Lines 195-212: the display of the account, then addJob; when botQueue.add
\* throws, addJob rethrows and the request ends in next(error), which
\* answers 500 (index.js 51-56); otherwise the body carries the row that
\* findUnique read at line 174, every column of it.
startAccountEnqueue(j, throws) ==
  /\ req[j].pc = "addJob"
  /\ initializeDisplayForAccount(req[j].accountId)
  /\ req' = [req EXCEPT ![j].pc = StartAfter(StepIndex("addJob"))]
  /\ IF throws
       THEN /\ response' = ErrorBody("start", 500)
            /\ UNCHANGED botQueue
       ELSE /\ botQueue' = botQueue \cup
                 {[id |-> j, accountId |-> req[j].accountId,
                   attemptsMade |-> 0]}
            /\ response' =
                 [Body("start", 200, {"message", "account"})
                    EXCEPT !.account = AccountColumns,
                           !.password = accountPassword[req[j].accountId]]
  /\ UNCHANGED <<account, accountPassword, nextReq, outsideApi>>

\* Lines 215-238: status 'stopped'; the body carries the row that findUnique
\* read, every column of it.
stopAccount(a) ==
  /\ IF account[a].exists
       THEN /\ account' = [account EXCEPT ![a].status = "stopped"]
            /\ response' =
                 [Body("stop", 200, {"message", "account"})
                    EXCEPT !.account = AccountColumns,
                           !.password = accountPassword[a]]
       ELSE /\ response' = ErrorBody("stop", 404)
            /\ UNCHANGED account
  /\ UNCHANGED <<accountPassword, botQueue, req, nextReq, displayVars,
                 outsideApi>>

ApiNext ==
  \/ getAccounts
  \/ \E a \in Accounts : getAccount(a)
  \/ \E a \in Accounts, given \in BOOLEAN : createAccount(a, given)
  \/ \E a \in Accounts, s \in ManualStatus, given \in BOOLEAN :
       updateAccount(a, s, given)
  \/ \E a \in Accounts : startAccountReject(a)
  \/ \E a \in Accounts : StartFind(a)
  \/ \E j \in JobIds : StartUpdate(j)
  \/ \E j \in JobIds, throws \in BOOLEAN : startAccountEnqueue(j, throws)
  \/ \E a \in Accounts : stopAccount(a)
  \/ \E a \in Accounts : DeleteAccount(a)

\* The accounts that exist were created with or without a password.
ApiInit ==
  /\ EngineInit
  /\ ProxyIdle /\ VaultIdle /\ ParseIdle /\ ShownIdle /\ ScrollIdle
  /\ accountPassword \in [Accounts -> {"null", "stored"}]
  /\ LoopIdle /\ ApiIdle /\ DriverIdle

ApiSpec == ApiInit /\ [][ApiNext]_vars

(***************************************************************************)
(* runPlaywrightBot: what it opens and what its finally block closes.      *)
(* browser, context and page are "undefined" until assigned, then "open",  *)
(* and after close() was called "closed", or "closeFailed" when the call   *)
(* rejected.  error is what the try block threw, outcome what the caller   *)
(* of the driver gets.  Every browser call returns or throws.              *)
(***************************************************************************)
outsideDriver == <<engineVars, proxyVars, vaultVars, parse, shown, scrollVars,
                   accountPassword, loop, response>>

Resources == <<"page", "context", "browser">>

\* Lines 1455-1480: 'Bot started', the display, the launch options; a
\* failure of initializeDisplayForAccount goes to the catch with nothing open.
DriverBegin(w, throws) ==
  /\ driver[w].pc = "idle"
  /\ driver' = [driver EXCEPT ![w] =
       IF throws THEN [@ EXCEPT !.pc = "catch", !.error = "DisplayError"]
                 ELSE [@ EXCEPT !.pc = "launch"]]
  /\ UNCHANGED outsideDriver

\* Line 1482: browser = await chromium.launch(launchOptions).
DriverLaunch(w, throws) ==
  /\ driver[w].pc = "launch"
  /\ driver' = [driver EXCEPT ![w] =
       IF throws THEN [@ EXCEPT !.pc = "catch", !.error = "LaunchError"]
                 ELSE [@ EXCEPT !.pc = "newContext", !.browser = "open"]]
  /\ UNCHANGED outsideDriver

\* Lines 1483-1489: context = await browser.newContext(...), the cookies.
DriverNewContext(w, throws) ==
  /\ driver[w].pc = "newContext"
  /\ driver' = [driver EXCEPT ![w] =
       IF throws THEN [@ EXCEPT !.pc = "catch", !.error = "ContextError"]
                 ELSE [@ EXCEPT !.pc = "newPage", !.context = "open"]]
  /\ UNCHANGED outsideDriver

\* Line 1491: page = await context.newPage().
DriverNewPage(w, throws) ==
  /\ driver[w].pc = "newPage"
  /\ driver' = [driver EXCEPT ![w] =
       IF throws THEN [@ EXCEPT !.pc = "catch", !.error = "PageError"]
                 ELSE [@ EXCEPT !.pc = "run", !.page = "open"]]
  /\ UNCHANGED outsideDriver

\* Lines 1492-1533: stealth, session or login, collectReels, final session,
\* 'Bot finished' and the return of the try block.
DriverRun(w, throws) ==
  /\ driver[w].pc = "run"
  /\ driver' = [driver EXCEPT ![w] =
       IF throws THEN [@ EXCEPT !.pc = "catch", !.error = "RunError"]
                 ELSE [@ EXCEPT !.pc = "close", !.outcome = "returned"]]
  /\ UNCHANGED outsideDriver

\* Lines 1534-1537: 'Bot error' is logged (saveLogToDB does not throw) and
\* the error is thrown again.
DriverCatch(w) ==
  /\ driver[w].pc = "catch"
  /\ driver' = [driver EXCEPT ![w].pc = "close",
                              ![w].outcome = driver[w].error]
  /\ UNCHANGED outsideDriver

\* x.close() without the catch: a rejection leaves the finally block at once
\* and becomes the outcome of the run.
closeUncaught(d, r, rejects) ==
  IF d[r] # "open" THEN d
  ELSE IF rejects
         THEN [d EXCEPT ![r] = "closeFailed", !.outcome = "CloseError",
                        !.pc = "done"]
         ELSE [d EXCEPT ![r] = "closed"]

\* if (x) await x.close().catch(() => {}): nothing is called on what was
\* never assigned, and a rejection of close is swallowed.
close(d, r, rejects) ==
  IF d[r] # "open" THEN d
  ELSE [d EXCEPT ![r] = IF rejects THEN "closeFailed" ELSE "closed"]

RECURSIVE closeAll(_, _, _)
closeAll(d, k, rejecting) ==
  IF k > Len(Resources) \/ d.pc = "done" THEN d
  ELSE closeAll(close(d, Resources[k], Resources[k] \in rejecting),
                k + 1, rejecting)

\* Lines 1538-1542: the finally block, page, then context, then browser;
\* after it the driver returns or throws what the try or the catch left.
DriverFinally(w, rejecting) ==
  /\ driver[w].pc = "close"
  /\ driver' = [driver EXCEPT ![w] =
                  [closeAll(@, 1, rejecting) EXCEPT !.pc = "done"]]
  /\ UNCHANGED outsideDriver

\* The job handler calls the driver again for the next job of the slot.
DriverAgain(w) ==
  /\ driver[w].pc = "done"
  /\ driver' = [driver EXCEPT ![w] = NoDriver]
  /\ UNCHANGED outsideDriver

DriverNext ==
  \/ \E w \in Workers, throws \in BOOLEAN : DriverBegin(w, throws)
  \/ \E w \in Workers, throws \in BOOLEAN : DriverLaunch(w, throws)
  \/ \E w \in Workers, throws \in BOOLEAN : DriverNewContext(w, throws)
  \/ \E w \in Workers, throws \in BOOLEAN : DriverNewPage(w, throws)
  \/ \E w \in Workers, throws \in BOOLEAN : DriverRun(w, throws)
  \/ \E w \in Workers : DriverCatch(w)
  \/ \E w \in Workers, rejecting \in SUBSET {"page", "context", "browser"} :
       DriverFinally(w, rejecting)
  \/ \E w \in Workers : DriverAgain(w)

DriverInit == Init

DriverSpec == DriverInit /\ [][DriverNext]_vars

(***************************************************************************)
(* Properties.                                                             *)
(***************************************************************************)
Busy(w) == wk[w].pc # "idle"

\* The pcs of runPlaywrightBot after its first step, and of collectReels' loop.
DriverPcs == {"loadCookies", "session", "login", "collectStart", "loopHead",
              "extract", "reelCreate", "outreachFind", "outreach", "scroll",
              "finish", "botCatch"}
CyclePcs == {"extract", "reelCreate", "outreachFind", "outreach", "scroll"}
LoopPcs == CyclePcs \cup {"loopHead"}

InDriver(w) == wk[w].pc \in DriverPcs

\* No other job, queued, running or about to be queued, refers to the account of w.
Alone(w) ==
  /\ \A v \in Workers \ {w} : Busy(v) => Acct(v) # Acct(w)
  /\ \A job \in botQueue : job.accountId # Acct(w)
  /\ \A j \in JobIds : req[j].pc # "none" => req[j].accountId # Acct(w)

\* C1: two job handlers never execute the session driver for the same
\* account at the same time.
C1_OneRunPerAccount ==
  \A w1, w2 \in Workers :
    (w1 # w2 /\ InDriver(w1) /\ InDriver(w2)) => Acct(w1) # Acct(w2)

\* What the job handler and the session driver can write.
SideEffectFrame ==
  /\ account' = account
  /\ logs' = logs
  /\ reelRows' = reelRows
  /\ outreachRows' = outreachRows
  /\ session' = session
  /\ inbox' = inbox
  /\ displayUsage' = displayUsage /\ xvfb' = xvfb /\ vnc' = vnc

\* C2: a handler that finds the account with a status other than 'running'
\* returns normally, and from the read to the end of the job it writes no
\* account field, no log, reel or outreach row, no session blob, provisions
\* no display and launches no browser.
C2_NoopHandler ==
  [][\A w \in Workers :
       /\ (/\ wk[w].pc = "findAccount"
           /\ wk'[w] # wk[w]
           /\ account[Acct(w)].exists
           /\ account[Acct(w)].status # "running")
          => (/\ wk'[w].pc = "return"
              /\ ~wk'[w].ranDriver
              /\ ~wk'[w].browser
              /\ SideEffectFrame)
       /\ (wk[w].pc = "return" /\ ~wk[w].ranDriver /\ wk'[w] # wk[w])
          => (wk'[w].pc = "idle" /\ botQueue' = botQueue /\ SideEffectFrame)
    ]_vars

C2_Witness ==
  \E w \in Workers :
    /\ wk[w].pc = "return"
    /\ ~wk[w].ranDriver
    /\ wk[w].readStatus \in {"stopped", "paused", "error"}

\* C3: a job is in the queue or in a handler only after the start request
\* that enqueued it has written 'running', and the status its handler reads
\* is never one that was in the store before that write (the initial 'idle').
C3_RunningBeforeEnqueue ==
  /\ \A job \in botQueue : req[job.id].wrote
  /\ \A w \in Workers :
       Busy(w) => /\ req[wk[w].job.id].wrote
                  /\ wk[w].readFresh
                  /\ wk[w].readStatus # "idle"

C3_Witness ==
  \E w \in Workers :
    /\ wk[w].pc = "botStart"
    /\ wk[w].job.attemptsMade = 0
    /\ wk[w].readStatus = "running"

\* The catch block of the handler ends by throwing the exception it caught,
\* and a handler that caught an exception never returns.
CatchRethrows(w) ==
  /\ (wk[w].pc = "catch" /\ wk'[w] # wk[w])
     => (wk'[w].pc = "throw" /\ wk'[w].thrown = wk[w].error
         /\ wk[w].error # "none")
  /\ (wk[w].pc \in {"botCatch", "catch", "throw"} /\ wk'[w] # wk[w])
     => wk'[w].pc \in {"catch", "throw", "idle"}

CatchWrites(w) ==
  (wk[w].pc = "catch" /\ wk'[w].pc = "throw")
  => /\ account'[Acct(w)].status = "error"
     /\ logs'[Acct(w)] = LogEntry("error", "Bot job failed")

C5_RetryRunsDriver ==
  \A w \in Workers :
    (wk[w].job.attemptsMade >= 1 /\ wk[w].readStatus = "error")
    => wk[w].pc # "return"

\* C6: a run whose loop ended on three consecutive failed advances does not
\* return normally to the queue (it aborts and the status becomes 'error').
C6_StuckRunAborts ==
  \A w \in Workers :
    (wk[w].pc = "return" /\ wk[w].exit = "stuck")
    => account[Acct(w)].status = "error"

\* C7, safety: the loop starts a cycle only when the status it polls at the
\* head of the iteration is 'running'; when it is not, the loop is left at
\* once; the loop is left for the end of the run only at its head, never in
\* the middle of a cycle; once left, no step of a cycle follows in that run.
C7_StopBetweenCycles ==
  \A w \in Workers :
    /\ (wk[w].pc = "loopHead" /\ wk'[w] # wk[w] /\ wk[w].reelCount < maxReels
        /\ account[Acct(w)].status # "running")
       => (wk'[w].pc = "finish" /\ wk'[w].exit = "stopped")
    /\ (wk[w].pc = "loopHead" /\ wk'[w].pc \in CyclePcs)
       => account[Acct(w)].status = "running"
    /\ (wk[w].pc \in CyclePcs /\ wk'[w] # wk[w])
       => wk'[w].pc \in LoopPcs \cup {"botCatch"}
    /\ (wk[w].pc \in {"finish", "lastActive"} /\ wk'[w] # wk[w])
       => wk'[w].pc \in {"lastActive", "return", "catch"}

\* C7: cooperative stop.  The safety part above, and under fair scheduling a
\* loop whose account is no longer 'running' is left unless the status is
\* set to 'running' again.
C7_CooperativeStop ==
  /\ [][C7_StopBetweenCycles]_vars
  /\ \A w \in Workers :
       (wk[w].pc \in LoopPcs /\ account[wk[w].job.accountId].status # "running")
       ~> (wk[w].pc \notin LoopPcs
           \/ account[wk[w].job.accountId].status = "running")

C7_Witness ==
  \E w \in Workers :
    /\ wk[w].pc = "finish"
    /\ wk[w].exit = "stopped"
    /\ account[Acct(w)].status = "stopped"

\* C8: a step of a worker changes the status of an account only in the
\* catch block of the handler and only to 'error'; the update after a
\* successful run leaves the status as it was.
C8_WorkerWritesOnlyError ==
  [][wk' # wk =>
       \A a \in Accounts :
         account'[a].status # account[a].status
         => /\ account'[a].status = "error"
            /\ \E w \in Workers :
                 wk[w].pc = "catch" /\ wk'[w].pc = "throw" /\ Acct(w) = a
    ]_vars

C8_Witness ==
  \E w \in Workers :
    /\ wk[w].pc = "return"
    /\ wk[w].ranDriver
    /\ account[Acct(w)].lastActive = "now"
    /\ account[Acct(w)].status = "stopped"

\* C9: after a run ended because the loop reached its limit, with no other
\* job for the account, a start request for the account is accepted.
C9_RestartAfterCompletion ==
  \A w \in Workers :
    (/\ wk[w].pc = "return"
     /\ wk[w].exit = "limit"
     /\ account[Acct(w)].exists
     /\ Alone(w))
    => StartAccepts(Acct(w))

\* C10: after an outreach step that submitted the message there is exactly
\* one outreach row for the (reel, user), with sent = true and a timestamp.
C10_SubmittedIsRecorded ==
  \A w \in Workers :
    (/\ wk[w].pc = "scroll"
     /\ wk[w].res.submitted
     /\ account[Acct(w)].exists
     /\ Alone(w))
    => LET k == <<Acct(w), wk[w].item>> IN
         /\ OutreachCount(outreachRows, k, Author(wk[w].item)) = 1
         /\ \A r \in OutreachFor(outreachRows, k, Author(wk[w].item)) :
              r.sent /\ r.sentAt # "null"

\* C11: after an outreach step whose delivery failed before the send (the
\* message button or the composer was not found, the template was empty,
\* the profile navigation threw) there is exactly one outreach row for the
\* (reel, user), with sent = false and no timestamp.
C11_FailedIsRecorded ==
  \A w \in Workers :
    (/\ wk[w].pc = "scroll"
     /\ wk[w].res.deliver = "failed"
     /\ account[Acct(w)].exists
     /\ Alone(w))
    => LET k == <<Acct(w), wk[w].item>> IN
         /\ OutreachCount(outreachRows, k, Author(wk[w].item)) = 1
         /\ \A r \in OutreachFor(outreachRows, k, Author(wk[w].item)) :
              ~r.sent /\ r.sentAt = "null"

\* C12: once a message was delivered to a user for a reel, no later cycle
\* and no later run of the account delivers to that user for that reel
\* again (runs one after another: one slot of the pool in use).
C12_NoRepeatDelivery ==
  [][\A w \in Workers :
       (wk[w].pc = "outreach" /\ wk'[w].res.submitted)
       => <<Acct(w), wk[w].item>> \notin inbox]_vars

CollectPcs == LoopPcs \cup {"collectStart", "finish"}

\* C15: a run whose saved session passes the verification (the file exists
\* and the page with its cookies is logged in) goes from the verification
\* straight to the collection, neither deleting nor writing the session
\* file, and the login procedure is not entered later in the run either.
C15_ValidSessionSkipsLogin ==
  /\ [][\A w \in Workers :
          (/\ wk[w].pc = "session"
           /\ wk'[w] # wk[w]
           /\ session[Acct(w)] # "none"
           /\ wk[w].cookies = "valid")
          => (/\ wk'[w].pc = "collectStart"
              /\ wk'[w].established = "saved"
              /\ session' = session)]_vars
  /\ [][\A w \in Workers :
          wk[w].pc \in CollectPcs => wk'[w].pc # "login"]_vars

C15_Witness ==
  \E w \in Workers :
    /\ wk[w].pc = "collectStart"
    /\ wk[w].established = "saved"
    /\ session[Acct(w)] = "valid"

\* C16: the session file is written with the browser's cookies after every
\* successful login and at the end of every run, the runs whose collection
\* threw after the session was established included.
C16_SessionSavedAtEnd ==
  /\ [][\A w \in Workers :
          (wk[w].pc = "login" /\ wk'[w].pc = "collectStart")
          => session'[Acct(w)] = "valid"]_vars
  /\ [](\A w \in Workers :
          (/\ wk[w].pc \in {"lastActive", "return", "catch", "throw"}
           /\ wk[w].ranDriver
           /\ wk[w].error \in CollectErrors \cup {"none", "RecordNotFound"})
          => wk[w].savedFinal)

\* C17: a run that finds its session invalid, at the verification or by a
\* redirect to the login page during the run, logs in again, saves the new
\* session and continues.
C17_InvalidSessionRelogin ==
  [][\A w \in Workers :
       /\ (/\ wk[w].pc = "session"
           /\ wk'[w] # wk[w]
           /\ session[Acct(w)] # "none"
           /\ wk[w].cookies # "valid")
          => wk'[w].pc = "login"
       /\ (wk[w].pc = "outreach" /\ wk'[w].res.via = "loginRedirect")
          => wk'[w].pc = "login"
       /\ (wk[w].pc = "login" /\ wk'[w] # wk[w] /\ wk'[w].pc # "botCatch")
          => (wk'[w].pc = "collectStart" /\ session'[Acct(w)] = "valid")
    ]_vars

\* C18: loading a corrupt session file yields no cookies and raises
\* nothing; the run that loaded nothing from an existing file goes to the
\* login, a successful login saves a valid session file, and so does the
\* end of the run.
C18_CorruptSessionRelogin ==
  /\ [][\A w \in Workers :
          (/\ wk[w].pc = "loadCookies"
           /\ wk'[w] # wk[w]
           /\ session[Acct(w)] = "corrupt")
          => (/\ wk'[w].pc = "session"
              /\ wk'[w].cookies = "none"
              /\ session' = session)]_vars
  /\ [][\A w \in Workers :
          (wk[w].pc = "session" /\ wk'[w] # wk[w] /\ wk[w].cookies = "none")
          => wk'[w].pc = "login"]_vars
  /\ [][\A w \in Workers :
          (\/ wk[w].pc = "login" /\ wk'[w].pc = "collectStart"
           \/ wk[w].pc = "finish" /\ wk'[w].pc = "lastActive")
          => session'[Acct(w)] = "valid"]_vars

C18_Witness ==
  \E w \in Workers :
    /\ wk[w].pc = "session"
    /\ wk[w].cookies = "none"
    /\ session[Acct(w)] = "corrupt"

\* C19: the display and the port of an account are 99 + (id mod 100) and
\* 5900 + (id mod 100): every call in progress works with that pair and
\* every entry of displayUsage holds it, whatever calls, provisioning and
\* releases came before.
C19_DisplayAssignment ==
  /\ \A c \in Callers :
       call[c].pc # "idle"
       => /\ call[c].display = 99 + (call[c].accountId % 100)
          /\ call[c].vncPort = 5900 + (call[c].accountId % 100)
  /\ \A u \in displayUsage :
       /\ u.display = 99 + (u.accountId % 100)
       /\ u.vncPort = 5900 + (u.accountId % 100)

C19_Witness ==
  /\ \E u \in displayUsage : u.accountId = 1 /\ u.display = 100
  /\ \E u \in displayUsage : u.accountId = 100 /\ u.display = 99
  /\ \E c \in Callers :
       /\ call[c].pc = "checkVnc"
       /\ call[c].accountId = 101
       /\ call[c].display = 100
       /\ call[c].vncPort = 5901

\* C20: for every interleaving of concurrent calls for one account, or for
\* two accounts of the same slot, at most one Xvfb process is started for
\* a display and at most one x11vnc process for a port.
C20_OneProcessPerSlot ==
  /\ \A d \in BagToSet(xvfb) : CopiesIn(d, xvfb) <= 1
  /\ \A p \in BagToSet(vnc) : CopiesIn(p, vnc) <= 1

\* C21: with the calls one after another, a call that finds the Xvfb and
\* the x11vnc of the slot running starts no process and returns the pair
\* recorded for the account; a process is started only for a component
\* that is not running when it is started.
C21_ProvisionIdempotent ==
  [][/\ (call[1].pc = "verify" /\ call'[1] # call[1]
         /\ BagIn(call[1].display, xvfb) /\ BagIn(call[1].vncPort, vnc))
        => (/\ call'[1].pc = "idle"
            /\ xvfb' = xvfb /\ vnc' = vnc /\ displayUsage' = displayUsage
            /\ \A u \in displayUsage :
                 u.accountId = call[1].accountId
                 => (/\ call'[1].display = u.display
                     /\ call'[1].vncPort = u.vncPort))
     /\ (call[1].pc # "idle" /\ call'[1] # call[1])
        => (/\ \A d \in BagToSet(xvfb') :
                 CopiesIn(d, xvfb') > CopiesIn(d, xvfb) => ~BagIn(d, xvfb)
            /\ \A p \in BagToSet(vnc') :
                 CopiesIn(p, vnc') > CopiesIn(p, vnc) => ~BagIn(p, vnc))
    ]_vars

C21_Witness ==
  /\ call[1].pc = "idle"
  /\ call[1].reused
  /\ call[1].accountId = 101
  /\ call[1].display = 100
  /\ CopiesIn(100, xvfb) = 1
  /\ CopiesIn(5901, vnc) = 1

\* C22: releaseDisplay removes the entry of its account and nothing else:
\* the Xvfb and x11vnc processes, the entries of the other accounts and the
\* calls in progress (and with them the pair of every account) stay.
C22_ReleaseFrame ==
  [][(\E u \in displayUsage : u \notin displayUsage')
     => \E a \in DisplayIds :
          /\ displayUsage' = {u \in displayUsage : u.accountId # a}
          /\ xvfb' = xvfb
          /\ vnc' = vnc
          /\ call' = call]_vars

C22_Witness ==
  /\ \A c \in Callers : call[c].pc = "idle"
  /\ BagIn(100, xvfb)
  /\ BagIn(5901, vnc)
  /\ \E u \in displayUsage : u.accountId = 101
  /\ \A u \in displayUsage : u.accountId # 1
  /\ \E c \in Callers : call[c].accountId = 1

\* C23: getProxyForAccount returns null for an empty list and otherwise the
\* element at index accountId mod length; as long as the list is the same,
\* calls of getNextProxy do not change what it returns for any id; and each
\* call of getNextProxy on a list that is not empty returns the element at
\* its cursor mod length and moves the cursor by one, so that successive
\* calls go through the list in order and start again at its first element
\* (an empty list gives null).
C23_ProxyAllocation ==
  /\ [](proxyOut.fn = "forAccount"
          => proxyOut.value =
               IF Len(proxies) = 0 THEN Null
               ELSE proxies[(proxyOut.arg % Len(proxies)) + 1])
  /\ [][proxies' = proxies
          => \A id \in ProxyAccountIds :
               getProxyForAccount(id)' = getProxyForAccount(id)]_vars
  /\ [][proxyOut'.fn = "next" /\ proxyOut' # proxyOut
          => IF Len(proxies) = 0
               THEN proxyOut'.value = Null /\ proxyIndex' = proxyIndex
               ELSE /\ proxyOut'.value = proxies[(proxyIndex % Len(proxies)) + 1]
                    /\ proxyIndex' = proxyIndex + 1]_vars
  /\ [][proxyIndex' # proxyIndex
          => /\ proxyOut'.fn = "next"
             /\ proxyOut'.value = proxies[(proxyIndex % Len(proxies)) + 1]
             /\ proxyIndex' = proxyIndex + 1]_vars

\* The cursor has gone round a list of two proxies and is back at its
\* first element.
C23_Witness ==
  /\ Len(proxies) = 2
  /\ proxies[1] # proxies[2]
  /\ proxyIndex = 3
  /\ proxyOut = [fn |-> "next", arg |-> 2, value |-> proxies[1]]
  /\ getProxyForAccount(5) = proxies[2]

\* The form iv:ciphertext: two parts of hex digits, an iv of one block and
\* at least one block of ciphertext.
HasForm(blob) ==
  /\ Len(Split(blob)) = 2
  /\ \A i \in 1..Len(blob) : blob[i] \in HexDigits \cup {Sep}
  /\ Len(Split(blob)[1]) = 1
  /\ Len(Split(blob)[2]) >= 1

WellFormed(str) == \A i \in 1..Len(str) : str[i] # UD800

\* C24 as stated: with a key of 32 bytes, every string (the empty one
\* included) is encrypted to a value of the form iv:ciphertext that decrypts
\* to the string; and decrypting a value that has not exactly two parts, or
\* decrypting with a key that has not 32 bytes, throws.
C24_VaultContract ==
  /\ (vault.op = "roundtrip" /\ ENCRYPTION_KEY.bytes = 32)
       => (vault.out = Ret(vault.arg) /\ HasForm(vault.blob))
  /\ (vault.op = "decrypt"
        /\ (Len(Split(vault.arg)) # 2 \/ ENCRYPTION_KEY.bytes # 32))
       => vault.out.threw

\* C24 (amended): with a key of 32 bytes, every string that is not empty and
\* has no unpaired surrogate is encrypted to a value of the form
\* iv:ciphertext that decrypts to the string; the empty string is encrypted
\* to null and null is decrypted to null; decrypting a value that is neither
\* null nor empty and has not exactly two parts, or decrypting such a value
\* with a key that has not 32 bytes, throws.
C24_VaultContractAmended ==
  /\ (vault.op = "roundtrip" /\ ENCRYPTION_KEY.bytes = 32
        /\ vault.arg # << >> /\ WellFormed(vault.arg))
       => (vault.out = Ret(vault.arg) /\ HasForm(vault.blob))
  /\ (vault.op = "roundtrip" /\ vault.arg = << >>)
       => (vault.blob = NullV /\ vault.out = Ret(NullV))
  /\ (vault.op = "decrypt" /\ vault.arg # << >> /\ vault.arg # NullV
        /\ (Len(Split(vault.arg)) # 2 \/ ENCRYPTION_KEY.bytes # 32))
       => vault.out.threw

\* A password of two characters, ':' among them, came back from its
\* encrypted value.
C24_Witness ==
  /\ vault.op = "roundtrip"
  /\ ENCRYPTION_KEY.bytes = 32
  /\ vault.arg = <<ChColon, ChA>>
  /\ HasForm(vault.blob)
  /\ FromHex(Split(vault.blob)[2]) # Utf8(vault.arg) \o <<PadByte>>
  /\ vault.out = Ret(vault.arg)

\* The value the text stands for: digits, at most one decimal point and an
\* optional K or M, separators and surrounding blanks left out, times the
\* multiplier and truncated; 0 for any other text.
ExactLikes(text) ==
  IF text = NullText \/ text = << >> THEN 0
  ELSE LET t == removeCommas(toUpperCase(trim(text)))
           suffixed == t # << >> /\ t[Len(t)] \in {"K", "M"}
           body == IF suffixed THEN SubSeq(t, 1, Len(t) - 1) ELSE t
           int == DigitRun(body)
           rest == SubSeq(body, Len(int) + 1, Len(body))
           frac == IF rest = << >> THEN << >> ELSE Tail(rest)
           wellFormed ==
             /\ int \o frac # << >>
             /\ rest # << >> => Head(rest) = "."
             /\ \A i \in 1..Len(frac) : IsDigit(frac[i])
           mul == IF ~suffixed THEN 1
                  ELSE IF t[Len(t)] = "K" THEN 1000 ELSE 1000000
       IN IF ~wellFormed THEN 0
          ELSE (DecimalValue(int \o frac) * mul) \div (10 ^ Len(frac))

\* C25: the result of parseLikesCount is a number that is not negative: the
\* value of the digits times 1,000 (K) or 1,000,000 (M), truncated, for a
\* text of digits with separators and an optional K or M ("8M" gives
\* 8000000, "100K" 100000, "1,234" 1234, "57.3K" 57300), and 0 for an
\* empty, null or any other text.
C25_ParseLikes ==
  parse.done
    => /\ ~parse.result.nan
       /\ parse.result.n >= 0
       /\ parse.result.n = ExactLikes(parse.text)

\* The reel has no like text, or its like text parses to a number below the
\* threshold.
Below(reel) ==
  \/ reel.likesText = NullText \/ reel.likesText = << >>
  \/ LET likes == parseLikesCount(reel.likesText)
     IN ~likes.nan /\ likes.n < 100000

\* C26: in a cycle whose reel has no like text or a like count below the
\* threshold, the gate sends the run to the scroll: extractCurrentReelInfo
\* is not called, the run reaches no step that creates a reel row or starts
\* an outreach, and until the cycle ends no reel row and no outreach row is
\* written and no message is delivered; the cycle ends with the scroll (or
\* with the exception a browser call of the scroll throws).
C26_GateSkips ==
  /\ [](\A w \in Workers :
          (wk[w].pc \in {"scroll", "extractFull", "reelCreate",
                         "outreachFind", "outreach"}
             /\ shown[w].item # 0 /\ Below(shown[w]))
            => (wk[w].pc = "scroll" /\ ~shown[w].extracted))
  /\ [][\A w \in Workers :
          ((wk[w].pc = "extract" /\ Below(shown'[w]) /\ shown'[w] # shown[w])
             \/ (wk[w].pc = "scroll" /\ shown[w].item # 0 /\ Below(shown[w])))
            => /\ \A k \in Accounts \X Items : reelRows'[k] <= reelRows[k]
               /\ outreachRows' \sqsubseteq outreachRows
               /\ inbox' \subseteq inbox
               /\ wk'[w].pc \in {"scroll", "loopHead", "botCatch"}]_vars

\* The gate has sent a reel of 1K likes, and before it a reel without like
\* text, to the scroll.
C26_Witness ==
  /\ wk[1].pc = "scroll"
  /\ shown[1].item = 1
  /\ shown[1].likesText = <<"1", "K">>
  /\ ~shown[1].extracted
  /\ wk[1].consecutiveFailures = 1

\* C27: a reel row is created, and an outreach is attempted, only for a
\* reel that is neither an advertisement nor a livestream.
C27_NoAdNoLive ==
  [][\A w \in Workers :
       ((\E k \in Accounts \X Items : reelRows'[k] > reelRows[k])
          \/ (wk[w].pc = "outreach" /\ wk'[w].pc # "outreach"))
         => (~shown[w].ad /\ ~shown[w].live)]_vars

\* C28: attemptScrollToNextReel returns true only if a read made after the
\* first ArrowDown showed a reel id of the location, or an identifier
\* reel_<id>_<likes>, that differs from the one recorded before it; a call
\* that returns without any such read returns false.
C28_TrueOnlyIfDiffered ==
  scroll.pc = "done"
    => /\ scroll.ret \in {"true", "false"}
       /\ scroll.ret = "true" => scroll.differed
       /\ ~scroll.differed => scroll.ret = "false"

\* A call returned true after the retry: the location showed the reel of
\* before at the read of line 964 and another one at the read of line 990.
C28_Witness ==
  /\ scroll.pc = "done"
  /\ scroll.ret = "true"
  /\ scroll.pressed
  /\ ~scroll.urlChanged
  /\ scroll.afterReelId = scroll.beforeReelId

\* The slots of the worker whose handler is executing.
Handlers == {w \in Workers : wk[w].pc # "idle"}

C30_NoDeleteUnderJob ==
  /\ \A job \in botQueue : account[job.accountId].exists
  /\ \A w \in Handlers : account[Acct(w)].exists

\* C31: the run of an account does not fail for the lack of a stored
\* password: without a password and without a saved session the login is
\* left to be completed in the opened browser.
C31_ManualLogin ==
  \A w \in Workers : wk[w].error # "PasswordNotAvailable"

\* C32: a change of the identifier reel_<id>_<likes> is enough: when the
\* check of the identifiers finds the one of the page different from the
\* one recorded before, while the reel id of the location is still the one
\* of before, attemptScrollToNextReel returns true.
C32_FingerprintSuffices ==
  [][(/\ scroll.pc = "afterLikes"
      /\ scroll' # scroll
      /\ scroll.afterReelId = scroll.beforeReelId
      /\ UniqueId(scroll.afterReelId, feed.likesText)
           # UniqueId(scroll.beforeReelId, scroll.beforeLikes))
       => scroll'.ret = "true"]_vars

\* C33: every call of attemptScrollToNextReel presses ArrowDown once, a
\* second time if and only if the reads after the first press verified no
\* change, never a third time, and returns false only after the read that
\* follows the second press.
C33_Signals ==
  /\ scroll.signals <= 2
  /\ scroll.signals = 2
       => /\ ~scroll.urlChanged
          /\ scroll.afterReelId \in {"unknown", scroll.beforeReelId}
  /\ scroll.pc = "done"
       => /\ scroll.signals >= 1
          /\ scroll.signals = 1 => scroll.ret = "true"
          /\ scroll.ret = "false" => scroll.signals = 2

\* C33, amended: as C33 for a call that finds a reel id in the location at
\* its start; a call that finds none returns false without pressing a key.
C33_SignalsAmended ==
  /\ scroll.signals <= 2
  /\ scroll.signals = 2
       => /\ ~scroll.urlChanged
          /\ scroll.afterReelId \in {"unknown", scroll.beforeReelId}
  /\ scroll.pc = "done"
       => IF scroll.beforeReelId = "unknown"
            THEN scroll.signals = 0 /\ scroll.ret = "false"
            ELSE /\ scroll.signals >= 1
                 /\ scroll.signals = 1 => scroll.ret = "true"
                 /\ scroll.ret = "false" => scroll.signals = 2

\* A call returned false after its second ArrowDown; the first one was
\* followed by an update of the DOM that the identifiers did not confirm.
C33_Witness ==
  /\ scroll.pc = "done"
  /\ scroll.ret = "false"
  /\ scroll.signals = 2
  /\ scroll.domUpdated

\* C34: the consecutive-failure counter of a run counts the failed advances
\* since the last successful one: within collectReels it changes only at
\* the bookkeeping of attemptScrollToNextReel, by one more for a failure
\* and to zero for a success (it starts at zero, and goes with the locals
\* of the run when collectReels returns or throws).
C34_CounterCountsFailures ==
  [][\A w \in Workers :
       wk'[w].consecutiveFailures # wk[w].consecutiveFailures
         => \/ /\ wk[w].pc = "scroll"
               /\ wk'[w].consecutiveFailures
                    \in {0, wk[w].consecutiveFailures + 1}
            \/ wk[w].pc = "collectStart"
            \/ wk'[w].pc \in {"botCatch", "finish", "idle"}]_vars

\* The full extraction of the reel of the cycle came back incomplete.
Incomplete(w) ==
  shown[w].item # 0 /\ shown[w].extracted /\ ~shown[w].complete

\* C35: a cycle whose full extraction is incomplete raises no error and
\* goes to the advance: it reaches no step that writes a reel row or an
\* outreach row, none is written until the advance is over, and the one
\* call of attemptScrollToNextReel leads back to the head of the loop
\* (or throws what a browser call of the advance throws).
C35_IncompleteSkips ==
  /\ [](\A w \in Workers :
          (Incomplete(w) /\ wk[w].pc \in {"scroll", "reelCreate",
                                          "outreachFind", "outreach"})
            => wk[w].pc = "scroll")
  /\ [][\A w \in Workers :
          ((wk[w].pc = "extractFull" /\ Incomplete(w)')
             \/ (wk[w].pc = "scroll" /\ Incomplete(w)))
            => /\ \A k \in Accounts \X Items : reelRows'[k] <= reelRows[k]
               /\ outreachRows' \sqsubseteq outreachRows
               /\ inbox' \subseteq inbox
               /\ wk'[w].pc \in {"scroll", "loopHead", "botCatch"}
               /\ wk'[w].pc = "botCatch" => wk[w].pc = "scroll"]_vars

\* After an incomplete extraction the advance was attempted, failed, and
\* the run is at the head of the loop again.
C35_Witness ==
  /\ Incomplete(1)
  /\ wk[1].pc = "loopHead"
  /\ wk[1].consecutiveFailures = 1
  /\ wk[1].seen = {}

\* C36: processReelOutreach never throws into collectReels: whatever step
\* of it fails, the run is next at the advance with the error it had, and
\* a failed outreach has called ensureOnReelsPage in its catch; from there
\* the advance is attempted and leads to the head of the loop (or throws
\* what its own browser calls throw).
C36_OutreachContained ==
  [][\A w \in Workers :
       /\ (wk[w].pc = "outreach" /\ wk'[w] # wk[w])
            => /\ wk'[w].pc = "scroll"
               /\ wk'[w].error = wk[w].error
               /\ ~wk'[w].res.success => wk'[w].res.ensured
       /\ (/\ wk[w].pc = "scroll"
           /\ wk[w].res.deliver # "none"
           /\ ~wk[w].res.success
           /\ wk'[w] # wk[w])
            => wk'[w].pc \in {"loopHead", "botCatch"}]_vars

\* The outreach of a reel failed, the advance was made and the loop is at
\* its head for the next reel.
C36_Witness ==
  /\ wk[1].pc = "loopHead"
  /\ logs[1] = LogEntry("error", "Outreach failed")
  /\ wk[1].reelCount = 1

\* C37: the loop of collectReels ends: a run that is at the head of the
\* loop has returned from collectReels some time later, whatever the
\* extractions and the advances of its cycles give.
C37_LoopTerminates ==
  \A w \in Workers : (loop[w].pc = "head") ~> (loop[w].pc = "returned")

\* C38: a start request whose job is not queued because the add fails does
\* not leave the account 'running': the step that ends the request without
\* its job in the queue leaves the status other than 'running'.
C38_NoRunningWithoutJob ==
  [][\A j \in JobIds :
       (/\ req[j].pc = "addJob"
        /\ req'[j].pc = "none"
        /\ ~\E job \in botQueue' : job.id = j)
         => account'[req[j].accountId].status # "running"]_vars


\* C40: no body sent by an account operation holds a 'password' key, at the
\* top level or in the account it carries.
C40_NoPasswordInResponse ==
  /\ "password" \notin response.fields \cup response.account
  /\ response.password = "absent"


\* C39: when the driver returns or throws, close() has been called on each
\* of page, context and browser that was opened, also when the close of
\* another one failed, and the driver returns when the run completed and
\* otherwise throws the error of the run, never that of a close.
C39_ClosedOnEveryPath ==
  \A w \in Workers :
    driver[w].pc = "done" =>
      /\ \A k \in 1..Len(Resources) : driver[w][Resources[k]] # "open"
      /\ driver[w].outcome =
           IF driver[w].error = "none" THEN "returned" ELSE driver[w].error

\* A run threw with everything open, the close of the page failed, and the
\* context and the browser were closed all the same.
C39_Witness ==
  \E w \in Workers :
    /\ driver[w].pc = "done"
    /\ driver[w].page = "closeFailed"
    /\ driver[w].context = "closed"
    /\ driver[w].browser = "closed"
    /\ driver[w].outcome = "RunError"

====
